---- MODULE Spec2Model ----
(***************************************************************************)
(* Model of the anonymous room chat client (src/src/app/page.tsx): the     *)
(* envelope codec (encryptText / decryptTextFromEnvelope), the room        *)
(* normalizer, and the ChatApp component with its realtime collaborator.   *)
(*                                                                         *)
(* Strings are sequences of UTF-16 code units.  A string whose text is a   *)
(* base64 encoding or a JSON document is carried in parsed form (what atob *)
(* or JSON.parse would make of it), every other string as its code units.  *)
(* Cryptography is symbolic: PBKDF2 is injective on (password bytes, salt),*)
(* AES-GCM opens a ciphertext only under the key and iv that sealed it,    *)
(* and crypto.getRandomValues never returns the same bytes twice.          *)
(***************************************************************************)
EXTENDS Integers, Sequences, FiniteSets, TLC

\* ------------------------------------------------------------- bounds
\* longest plaintext the codec is exercised on
MaxPlainLen == 2
\* encryptText calls in one behaviour of the codec
MaxEnc == 2
\* longest raw room identifier the normalizer is exercised on
MaxRoomLen == 3
\* rows ever inserted into the messages table
MaxMsgs == 2
\* events waiting for one client on one channel
MaxQueue == 2
\* change events the collaborator delivers a second time
MaxRedeliver == 1
\* rows a room stores before the first join
MaxStored == 3
\* largest page size the backfill query is scaled down to
MaxPage == 2

\* ------------------------------------------------------------ strings
\* " " is U+0020 and "bom" is U+FEFF: both are WhiteSpace for String.prototype.trim
WhiteSpace == {" ", "bom"}

RECURSIVE trimStart(_)
trimStart(s) ==
    IF s # <<>> /\ Head(s) \in WhiteSpace THEN trimStart(Tail(s)) ELSE s

RECURSIVE trimEnd(_)
trimEnd(s) ==
    IF s # <<>> /\ s[Len(s)] \in WhiteSpace
    THEN trimEnd(SubSeq(s, 1, Len(s) - 1))
    ELSE s

trim(s) == trimEnd(trimStart(s))

toLowerUnit(ch) ==
    CASE ch = "T" -> "t"
      [] ch = "Q" -> "q"
      [] OTHER -> ch

toLowerCase(s) == [i \in 1..Len(s) |-> toLowerUnit(s[i])]

normalizedRoom_NoLower(raw) == trim(raw)

normalizedRoom(raw) == toLowerCase(trim(raw))

normalizedName(raw) == trim(raw)

\* -------------------------------------------------------------- codec
\* a string given by its code units
Txt(s) == [k |-> "txt", s |-> s]

\* TextEncoder.encode: UTF-8 bytes, written as the scalar values they encode.
\* A surrogate pair ("hs" then "ls") is one supplementary scalar; an unpaired
\* surrogate is replaced by U+FFFD.
RECURSIVE textEncoder_encode(_)
textEncoder_encode(s) ==
    IF s = <<>> THEN <<>>
    ELSE IF Head(s) = "hs" /\ Len(s) >= 2 /\ s[2] = "ls"
         THEN <<"pair">> \o textEncoder_encode(Tail(Tail(s)))
    ELSE IF Head(s) \in {"hs", "ls"}
         THEN <<"fffd">> \o textEncoder_encode(Tail(s))
    ELSE <<Head(s)>> \o textEncoder_encode(Tail(s))

RECURSIVE Utf16(_)
Utf16(b) ==
    IF b = <<>> THEN <<>>
    ELSE IF Head(b) = "pair" THEN <<"hs", "ls">> \o Utf16(Tail(b))
    ELSE <<Head(b)>> \o Utf16(Tail(b))

\* TextDecoder.decode with the default options: not fatal, and ignoreBOM false,
\* so a leading U+FEFF is dropped
textDecoder_decode(b) ==
    IF b # <<>> /\ Head(b) = "bom" THEN Utf16(Tail(b)) ELSE Utf16(b)

\* btoa over the bytes of a buffer
toB64(buf) == [k |-> "b64", buf |-> buf]

\* the code units atob accepts, among those the model writes strings with
B64Units == {"a", "h", "p", "t", "T", "q", "Q", "u", "n", "d", "e", "f", "i"}

\* String(undefined), which is what atob makes of a missing field
UndefinedText == <<"u", "n", "d", "e", "f", "i", "n", "e", "d">>

\* atob throws on anything that is not base64 text
atobThrows(str) ==
    CASE str.k = "b64" -> FALSE
      [] str.k = "txt" -> \/ Len(str.s) % 4 = 1
                          \/ \E i \in 1..Len(str.s) : str.s[i] \notin B64Units
      [] OTHER -> TRUE

fromB64(str) ==
    IF str.k = "b64" THEN str.buf ELSE [t |-> "raw", s |-> str.s]

\* crypto.getRandomValues(new Uint8Array(len)): the n-th draw of the generator
getRandomValues(len, n) == [t |-> "rand", len |-> len, n |-> n]

deriveKey(password, salt) == [pw |-> textEncoder_encode(password), salt |-> salt]

\* crypto.subtle.encrypt({name: "AES-GCM", iv}, key, data)
subtleEncrypt(iv, key, data) == [t |-> "ct", key |-> key, iv |-> iv, data |-> data]

\* crypto.subtle.decrypt rejects (OperationError) unless the tag verifies
subtleDecryptThrows(iv, key, ct) == ~(ct.t = "ct" /\ ct.key = key /\ ct.iv = iv)

subtleDecrypt(iv, key, ct) == ct.data

\* encryptText with a salt computed from the password instead of drawn
encryptText_KeyedSalt(plain, password, drawn) ==
    LET iv == getRandomValues(12, drawn + 1)
        salt == textEncoder_encode(password)
        key == deriveKey(password, salt)
        ctBuf == subtleEncrypt(iv, key, textEncoder_encode(plain))
    IN  [v |-> "v1", alg |-> "AES-GCM", iv |-> toB64(iv), salt |-> toB64(salt),
         ct |-> toB64(ctBuf)]

\* encryptText with a generator that repeats itself: the iv of every call is
\* the first draw, and the salt is the iv's bytes again
encryptText_Reuse(plain, password, drawn) ==
    LET iv == getRandomValues(12, 1)
        salt == getRandomValues(16, 1)
        key == deriveKey(password, salt)
        ctBuf == subtleEncrypt(iv, key, textEncoder_encode(plain))
    IN  [v |-> "v1", alg |-> "AES-GCM", iv |-> toB64(iv), salt |-> toB64(salt),
         ct |-> toB64(ctBuf)]

\* drawn: how many buffers the generator has handed out before this call
encryptText(plain, password, drawn) ==
    LET iv == getRandomValues(12, drawn + 1)
        salt == getRandomValues(16, drawn + 2)
        key == deriveKey(password, salt)
        ctBuf == subtleEncrypt(iv, key, textEncoder_encode(plain))
    IN  [v |-> "v1", alg |-> "AES-GCM", iv |-> toB64(iv), salt |-> toB64(salt),
         ct |-> toB64(ctBuf)]

\* JSON.stringify of an envelope object
JSON_stringify(env) == [k |-> "json", val |-> [ty |-> "obj", f |-> env]]

JSON_parseThrows(str) == str.k # "json"

JSON_parse(str) == str.val

\* env?.field: undefined for null, for a number or array, and for a missing field
Prop(val, field) ==
    IF val.ty = "obj" /\ field \in DOMAIN val.f THEN val.f[field] ELSE "undefined"

\* a field handed to atob: a missing one reads as the text "undefined"
StrProp(val, field) ==
    IF val.ty = "obj" /\ field \in DOMAIN val.f
    THEN val.f[field]
    ELSE Txt(UndefinedText)

\* the body of the try block of decryptTextFromEnvelope
DecryptTry(contentField, password) ==
    IF JSON_parseThrows(contentField) THEN [thrown |-> TRUE]
    ELSE LET env == JSON_parse(contentField) IN
    IF Prop(env, "v") # "v1" \/ Prop(env, "alg") # "AES-GCM" THEN [thrown |-> TRUE]
    ELSE IF atobThrows(StrProp(env, "iv")) THEN [thrown |-> TRUE]
    ELSE IF atobThrows(StrProp(env, "salt")) THEN [thrown |-> TRUE]
    ELSE IF atobThrows(StrProp(env, "ct")) THEN [thrown |-> TRUE]
    ELSE LET iv == fromB64(StrProp(env, "iv"))
             salt == fromB64(StrProp(env, "salt"))
             key == deriveKey(password, salt)
             ct == fromB64(StrProp(env, "ct"))
         IN  IF subtleDecryptThrows(iv, key, ct) THEN [thrown |-> TRUE]
             ELSE [thrown |-> FALSE,
                   value |-> Txt(textDecoder_decode(subtleDecrypt(iv, key, ct)))]

\* decryptTextFromEnvelope with JSON.parse and the version test outside the try
decryptTextFromEnvelope_Throwing(contentField, password) ==
    LET r == DecryptTry(contentField, password) IN
    IF JSON_parseThrows(contentField) THEN [raised |-> TRUE, value |-> Txt(<<>>)]
    ELSE IF r.thrown THEN [raised |-> FALSE, value |-> Txt(<<>>)]
    ELSE [raised |-> FALSE, value |-> r.value]

\* raised: an exception reaches the caller; value: the string returned
decryptTextFromEnvelope(contentField, password) ==
    LET r == DecryptTry(contentField, password) IN
    IF r.thrown
    THEN [raised |-> FALSE, value |-> contentField]
    ELSE [raised |-> FALSE, value |-> r.value]

\* ---------------------------------------------------------- variables
\* the codec under test: the generator's draws so far, the plaintext and
\* password to encrypt, the last encryptText call, the iv and salt of every
\* envelope produced, the last decrypt call
VARIABLES rng, encIn, encCall, nonces, decCall

\* the normalizer under test: two raw room identifiers and their keys
VARIABLES rawRoomA, rawRoomB, normCall

codecVars == <<encIn, encCall, nonces, decCall>>

normVars == <<rawRoomA, rawRoomB, normCall>>

\* ChatApp, one instance per client: the useState values
VARIABLES room, name, pass, joined, loading, message, messages, onlineUsers,
          typingUsers, errMsg, infoMsg

\* the useRef values, the clipboard, and whether the component is mounted
VARIABLES presenceRef, msgChannelRef, selfTypingRef, typingTimerRef, clipboard,
          mounted

\* the calls in flight: joinRoom, sendMessage, clearRoomHistory, and the
\* decryptions started by the INSERT handler
VARIABLES join, sends, clear, decrypting

\* the remote collaborator: the messages table, its id sequence, and the
\* events on their way to each client on the two channels
VARIABLES store, nextId, changeQ, presenceQ

\* what the bounds count: change events delivered again, clear-history
\* requests, composer input events
VARIABLES redelivered, typingSent

uiVars == <<room, name, pass, joined, loading, message, messages, onlineUsers,
            typingUsers, errMsg, infoMsg>>

refVars == <<presenceRef, msgChannelRef, selfTypingRef, typingTimerRef, clipboard,
             mounted>>

callVars == <<join, sends, clear, decrypting>>

remoteVars == <<store, nextId, changeQ, presenceQ>>

countVars == <<redelivered, typingSent>>

chatVars == <<uiVars, refVars, callVars, remoteVars, countVars>>

vars == <<rng, codecVars, normVars, chatVars>>

Clients == {"c1", "c2"}

NoChannel == [st |-> "none"]

NoInfo == [text |-> ""]

\* the state of every instance after construction, and of the collaborator
\* before any client has called it
InitChat ==
    /\ room = [c \in Clients |-> <<>>]
    /\ name = [c \in Clients |-> <<>>]
    /\ pass = [c \in Clients |-> <<>>]
    /\ joined = [c \in Clients |-> FALSE]
    /\ loading = [c \in Clients |-> FALSE]
    /\ message = [c \in Clients |-> <<>>]
    /\ messages = [c \in Clients |-> <<>>]
    /\ onlineUsers = [c \in Clients |-> 0]
    /\ typingUsers = [c \in Clients |-> {}]
    /\ errMsg = [c \in Clients |-> ""]
    /\ infoMsg = [c \in Clients |-> NoInfo]
    /\ presenceRef = [c \in Clients |-> NoChannel]
    /\ msgChannelRef = [c \in Clients |-> NoChannel]
    /\ selfTypingRef = [c \in Clients |-> FALSE]
    /\ typingTimerRef = [c \in Clients |-> 0]
    /\ clipboard = [c \in Clients |-> [copied |-> FALSE]]
    /\ mounted = [c \in Clients |-> TRUE]
    /\ join = [c \in Clients |-> [pc |-> "idle"]]
    /\ sends = [c \in Clients |-> <<>>]
    /\ clear = [c \in Clients |-> [pc |-> "idle"]]
    /\ decrypting = [c \in Clients |-> <<>>]
    /\ store = <<>>
    /\ nextId = 1
    /\ changeQ = [c \in Clients |-> <<>>]
    /\ presenceQ = [c \in Clients |-> <<>>]
    /\ redelivered = 0
    /\ typingSent = [c \in Clients |-> <<>>]

\* ------------------------------------------------------------ ChatApp
\* the page size of the backfill query
BackfillLimit == 200

\* a setState call: dropped once the component is unmounted
SetState_Dropped(c, old, new) == old

SetState(c, old, new) == IF mounted[c] THEN new ELSE old

\* an unsubscribe call that leaves the channel as it is
Unsubscribed_Kept(ch) == ch

\* channel.unsubscribe()
Unsubscribed(ch) ==
    IF ch.st = "none" THEN ch
    ELSE IF "tracked" \in DOMAIN ch THEN [ch EXCEPT !.st = "closed", !.tracked = FALSE]
    ELSE [ch EXCEPT !.st = "closed"]

\* the clients attached to a presence topic, and the keys they track
PresenceMembers(topic) ==
    {d \in Clients : presenceRef[d].st = "joined" /\ presenceRef[d].topic = topic}

PresenceKeys(members) == {presenceRef[d].key : d \in {m \in members : presenceRef[m].tracked}}

\* the presence queues once c's presence channel is closed: c receives
\* nothing more on it, and the others on its topic are told who is left
PresenceQAfterLeave(c) ==
    LET ch == presenceRef[c]
        others == IF ch.st = "joined" /\ ch.tracked
                  THEN PresenceMembers(ch.topic) \ {c}
                  ELSE {}
        sync == [type |-> "sync", keys |-> PresenceKeys(others)]
    IN  [d \in Clients |->
            IF d = c THEN <<>>
            ELSE IF d \in others THEN Append(presenceQ[d], sync)
            ELSE presenceQ[d]]

\* the clients a broadcast of c on its presence channel reaches.  Broadcasts
\* are not echoed to the sender.  On a channel that is not joined the client
\* library either drops the message or posts it over HTTP (rest).
BroadcastReceivers(c, rest) ==
    LET ch == presenceRef[c] IN
    IF ch.st = "joined" \/ (ch.st \in {"joining", "closed"} /\ rest)
    THEN PresenceMembers(ch.topic) \ {c}
    ELSE {}

Broadcast(Q, to, ev) ==
    [d \in Clients |-> IF d \in to THEN Append(Q[d], ev) ELSE Q[d]]

QueuesHaveRoom(Q, to) == \A d \in to : Len(Q[d]) < MaxQueue

\* sendTyping that transmits on every call
TypingChanges_Always(c, typing) == TRUE

\* sendTyping(typing): the event it transmits, to whom
TypingChanges(c, typing) == selfTypingRef[c] # typing

TypingEvent(c, typing) ==
    [type |-> "typing", name |-> normalizedName(name[c]), typing |-> typing]

\* the last two elements of a sequence
LastTwo(s) == IF Len(s) > 2 THEN SubSeq(s, Len(s) - 1, Len(s)) ELSE s

\* the flags of the last two typing broadcasts c has handed to its presence
\* channel, after sendTyping(typing)
TypingSentAfter(c, typing) ==
    IF TypingChanges(c, typing) /\ presenceRef[c].st # "none"
    THEN [typingSent EXCEPT ![c] = LastTwo(Append(@, typing))]
    ELSE typingSent

\* clearTimeout that cancels nothing
clearTimeout_Ignored(pending) == pending

\* clearTimeout(typingTimerRef.current), on the number of pending timeouts:
\* the reference holds the timeout armed last, which is pending if any is
clearTimeout(pending) == IF pending > 0 THEN pending - 1 ELSE 0

\* .from("messages").select(...).eq("room", key).order("created_at").limit(n)
RECURSIVE SelectRoom(_, _)
SelectRoom(rows, key) ==
    IF rows = <<>> THEN <<>>
    ELSE IF Head(rows).room = key
         THEN <<Head(rows)>> \o SelectRoom(Tail(rows), key)
         ELSE SelectRoom(Tail(rows), key)

SelectMessages(rows, key, limit) ==
    LET found == SelectRoom(rows, key) IN
    IF Len(found) <= limit THEN found ELSE SubSeq(found, 1, limit)

\* a row as the client keeps it, its content decrypted
Decrypted_Raw(m, password) == m

Decrypted(m, password) ==
    [id |-> m.id, room |-> m.room, author |-> m.author,
     content |-> decryptTextFromEnvelope(m.content, password).value,
     created_at |-> m.created_at]

\* the onChange handlers of the join form
SetRoom(c, raw) ==
    /\ mounted[c] /\ ~joined[c]
    /\ room' = [room EXCEPT ![c] = raw]
    /\ UNCHANGED <<name, pass, joined, loading, message, messages, onlineUsers,
                   typingUsers, errMsg, infoMsg>>
    /\ UNCHANGED <<rng, codecVars, normVars, refVars, callVars, remoteVars, countVars>>

SetName(c, raw) ==
    /\ mounted[c] /\ ~joined[c]
    /\ name' = [name EXCEPT ![c] = raw]
    /\ UNCHANGED <<room, pass, joined, loading, message, messages, onlineUsers,
                   typingUsers, errMsg, infoMsg>>
    /\ UNCHANGED <<rng, codecVars, normVars, refVars, callVars, remoteVars, countVars>>

SetPass(c, raw) ==
    /\ mounted[c] /\ ~joined[c]
    /\ pass' = [pass EXCEPT ![c] = raw]
    /\ UNCHANGED <<room, name, joined, loading, message, messages, onlineUsers,
                   typingUsers, errMsg, infoMsg>>
    /\ UNCHANGED <<rng, codecVars, normVars, refVars, callVars, remoteVars, countVars>>

\* joinRoom up to its first await: validation, teardown of the previous
\* channels, and the backfill query sent.  The form is shown while not joined
\* and its submit button is disabled while loading.
JoinStart(c) ==
    /\ mounted[c] /\ ~joined[c] /\ ~loading[c]
    /\ infoMsg' = [infoMsg EXCEPT ![c] = NoInfo]
    /\ IF normalizedRoom(room[c]) = <<>> \/ normalizedName(name[c]) = <<>> \/ pass[c] = <<>>
       THEN /\ errMsg' = [errMsg EXCEPT ![c] = "Inserisci nome, ID stanza e password."]
            /\ UNCHANGED <<messages, loading, join, msgChannelRef, presenceRef,
                           changeQ, presenceQ>>
       ELSE /\ QueuesHaveRoom(presenceQ, Clients \ {c})
            /\ errMsg' = [errMsg EXCEPT ![c] = ""]
            /\ msgChannelRef' = [msgChannelRef EXCEPT ![c] = Unsubscribed(@)]
            /\ presenceRef' = [presenceRef EXCEPT ![c] = Unsubscribed(@)]
            /\ changeQ' = [changeQ EXCEPT ![c] = <<>>]
            /\ presenceQ' = PresenceQAfterLeave(c)
            /\ messages' = [messages EXCEPT ![c] = <<>>]
            /\ loading' = [loading EXCEPT ![c] = TRUE]
            /\ join' = [join EXCEPT ![c] =
                          [pc |-> "select", room |-> room[c], name |-> name[c],
                           pass |-> pass[c], key |-> normalizedRoom(room[c]),
                           data |-> <<>>, done |-> <<>>]]
    /\ UNCHANGED <<room, name, pass, joined, message, onlineUsers, typingUsers>>
    /\ UNCHANGED <<selfTypingRef, typingTimerRef, clipboard, mounted>>
    /\ UNCHANGED <<sends, clear, decrypting, store, nextId>>
    /\ UNCHANGED <<rng, codecVars, normVars, countVars>>

\* the backfill query answered with the rows of the room, for a page size
BackfillAnswered(c, limit) ==
    /\ join[c].pc = "select"
    /\ join' = [join EXCEPT ![c].pc = "decrypt",
                            ![c].data = SelectMessages(store, join[c].key, limit)]
    /\ UNCHANGED <<rng, codecVars, normVars, uiVars, refVars, sends, clear, decrypting,
                   remoteVars, countVars>>

BackfillOk(c) == BackfillAnswered(c, BackfillLimit)

\* an error path that returns with the loading flag as it is
BackfillError_Loading(c) ==
    /\ join[c].pc = "select"
    /\ errMsg' = [errMsg EXCEPT ![c] = SetState(c, @, "Errore Supabase SELECT")]
    /\ join' = [join EXCEPT ![c] = [pc |-> "idle"]]
    /\ UNCHANGED <<room, name, pass, joined, loading, message, messages, onlineUsers,
                   typingUsers, infoMsg>>
    /\ UNCHANGED <<rng, codecVars, normVars, refVars, sends, clear, decrypting,
                   remoteVars, countVars>>

\* the backfill query answered with an error
BackfillError(c) ==
    /\ join[c].pc = "select"
    /\ errMsg' = [errMsg EXCEPT ![c] = SetState(c, @, "Errore Supabase SELECT")]
    /\ loading' = [loading EXCEPT ![c] = SetState(c, @, FALSE)]
    /\ join' = [join EXCEPT ![c] = [pc |-> "idle"]]
    /\ UNCHANGED <<room, name, pass, joined, message, messages, onlineUsers,
                   typingUsers, infoMsg>>
    /\ UNCHANGED <<rng, codecVars, normVars, refVars, sends, clear, decrypting,
                   remoteVars, countVars>>

\* one decryption of the batch completes; done lists them in completion order
BackfillDecrypt(c, i) ==
    /\ join[c].pc = "decrypt"
    /\ i \in 1..Len(join[c].data)
    /\ \A j \in 1..Len(join[c].done) : join[c].done[j] # i
    /\ join' = [join EXCEPT ![c].done = Append(@, i)]
    /\ UNCHANGED <<rng, codecVars, normVars, uiVars, refVars, sends, clear, decrypting,
                   remoteVars, countVars>>

\* Promise.all resolves once every decryption of the batch has completed
BatchResolved_Early(c) == TRUE

BatchResolved(c) == Len(join[c].done) = Len(join[c].data)

\* a batch whose results come in the order the decryptions completed
PromiseAll_ByCompletion(c) ==
    [k \in 1..Len(join[c].done) |->
        Decrypted(join[c].data[join[c].done[k]], join[c].pass)]

\* the value of Promise.all(data.map(...)): one result per record, at the
\* record's place in data
PromiseAll(c) ==
    [i \in 1..Len(join[c].data) |-> Decrypted(join[c].data[i], join[c].pass)]

\* Promise.all resolved: the rest of joinRoom, down to the two subscribe calls
JoinFinish(c) ==
    /\ join[c].pc = "decrypt"
    /\ BatchResolved(c)
    /\ LET key == join[c].key
           dec == PromiseAll(c)
       IN  /\ messages' = [messages EXCEPT ![c] = SetState(c, @, dec)]
           /\ joined' = [joined EXCEPT ![c] = SetState(c, @, TRUE)]
           /\ loading' = [loading EXCEPT ![c] = SetState(c, @, FALSE)]
           /\ msgChannelRef' = [msgChannelRef EXCEPT ![c] =
                                  [st |-> "joining", topic |-> <<"room:">> \o key,
                                   filter |-> key]]
           /\ presenceRef' = [presenceRef EXCEPT ![c] =
                                [st |-> "joining", topic |-> <<"presence:">> \o key,
                                 key |-> normalizedName(join[c].name), tracked |-> FALSE]]
    /\ join' = [join EXCEPT ![c] = [pc |-> "idle", room |-> join[c].room,
                                    name |-> join[c].name, pass |-> join[c].pass,
                                    key |-> join[c].key, done |-> join[c].done]]
    /\ UNCHANGED <<room, name, pass, message, onlineUsers, typingUsers, errMsg, infoMsg>>
    /\ UNCHANGED <<selfTypingRef, typingTimerRef, clipboard, mounted>>
    /\ UNCHANGED <<rng, codecVars, normVars, sends, clear, decrypting, remoteVars, countVars>>

\* the collaborator acknowledges the message-change subscription: from now on
\* the client is sent the changes of its room
MsgSubscribed(c) ==
    /\ msgChannelRef[c].st = "joining"
    /\ msgChannelRef' = [msgChannelRef EXCEPT ![c].st = "joined"]
    /\ UNCHANGED <<presenceRef, selfTypingRef, typingTimerRef, clipboard, mounted>>
    /\ UNCHANGED <<rng, codecVars, normVars, uiVars, callVars, remoteVars, countVars>>

\* the presence subscription is acknowledged as SUBSCRIBED and the callback
\* tracks the client: every member of the topic is sent the new presence state
PresenceSubscribed(c) ==
    /\ presenceRef[c].st = "joining"
    /\ LET topic == presenceRef[c].topic
           members == PresenceMembers(topic) \cup {c}
           keys == PresenceKeys(PresenceMembers(topic)) \cup {presenceRef[c].key}
       IN  /\ QueuesHaveRoom(presenceQ, members)
           /\ presenceQ' = Broadcast(presenceQ, members, [type |-> "sync", keys |-> keys])
    /\ presenceRef' = [presenceRef EXCEPT ![c].st = "joined", ![c].tracked = TRUE]
    /\ UNCHANGED <<msgChannelRef, selfTypingRef, typingTimerRef, clipboard, mounted>>
    /\ UNCHANGED <<rng, codecVars, normVars, uiVars, callVars, store, nextId, changeQ,
                   countVars>>

\* s without its i-th element
RemoveAt(s, i) == SubSeq(s, 1, i - 1) \o SubSeq(s, i + 1, Len(s))

\* the clients whose message-change subscription is live on a room
ChangeSubscribers(key) ==
    {d \in Clients : msgChannelRef[d].st = "joined" /\ msgChannelRef[d].filter = key}

\* the list the DELETE handler sets: () => setMessages([])
AfterDelete_Named(list, ev) == SelectSeq(list, LAMBDA m : m.id # ev.old.id)

AfterDelete(list, ev) == <<>>

\* the decryptions in flight, each marked as started before a DELETE or
\* room_cleared event that has now been handled
Overtaken(tasks) == [i \in 1..Len(tasks) |-> [tasks[i] EXCEPT !.cleared = TRUE]]

\* a change event reaches the client: the INSERT handler starts decrypting the
\* new row, the DELETE handler empties the list.  The collaborator delivers at
\* least once: with again, the same event will be delivered once more.
DeliverChange(c, again) ==
    /\ changeQ[c] # <<>>
    /\ msgChannelRef[c].st = "joined"
    /\ again => redelivered < MaxRedeliver
    /\ redelivered' = IF again THEN redelivered + 1 ELSE redelivered
    /\ changeQ' = [changeQ EXCEPT ![c] = IF again THEN @ ELSE Tail(@)]
    /\ LET ev == Head(changeQ[c]) IN
       IF ev.type = "INSERT"
       THEN /\ decrypting' = [decrypting EXCEPT ![c] =
                                Append(@, [new |-> ev.new, pass |-> join[c].pass,
                                           cleared |-> FALSE])]
            /\ UNCHANGED messages
       ELSE /\ messages' = [messages EXCEPT ![c] = SetState(c, @, AfterDelete(@, ev))]
            /\ decrypting' = [decrypting EXCEPT ![c] = Overtaken(@)]
    /\ UNCHANGED <<room, name, pass, joined, loading, message, onlineUsers,
                   typingUsers, errMsg, infoMsg>>
    /\ UNCHANGED <<rng, codecVars, normVars, refVars, join, sends, clear, store, nextId,
                   presenceQ, typingSent>>

\* a decryption started by the INSERT handler completes: the message is appended
InsertDecrypted(c, i) ==
    /\ i \in 1..Len(decrypting[c])
    /\ LET task == decrypting[c][i] IN
       messages' = [messages EXCEPT ![c] =
                      SetState(c, @, Append(@, Decrypted(task.new, task.pass)))]
    /\ decrypting' = [decrypting EXCEPT ![c] = RemoveAt(@, i)]
    /\ UNCHANGED <<room, name, pass, joined, loading, message, onlineUsers,
                   typingUsers, errMsg, infoMsg>>
    /\ UNCHANGED <<rng, codecVars, normVars, refVars, join, sends, clear, remoteVars,
                   countVars>>

\* (payload as any).by of a room_cleared event, empty when the payload or the
\* field is missing
PayloadBy(ev) == IF "by" \in DOMAIN ev THEN ev.by ELSE <<>>

\* a notice that names the actor whatever the payload holds
RoomClearedNotice_Named(by) == [text |-> "Cronologia eliminata da", by |-> by]

\* the notice the room_cleared handler shows
RoomClearedNotice(by) ==
    IF by # <<>> THEN [text |-> "Cronologia eliminata da", by |-> by]
    ELSE [text |-> "Cronologia eliminata."]

\* an event of the presence channel reaches the client: presence sync, a
\* typing broadcast or a room_cleared broadcast
DeliverPresence(c) ==
    /\ presenceQ[c] # <<>>
    /\ presenceRef[c].st = "joined"
    /\ presenceQ' = [presenceQ EXCEPT ![c] = Tail(@)]
    /\ LET ev == Head(presenceQ[c]) IN
       CASE ev.type = "sync" ->
              /\ onlineUsers' = [onlineUsers EXCEPT ![c] =
                                   SetState(c, @, Cardinality(ev.keys))]
              /\ UNCHANGED <<messages, typingUsers, infoMsg, decrypting>>
         [] ev.type = "typing" ->
              /\ typingUsers' = [typingUsers EXCEPT ![c] =
                    IF ev.name = <<>> \/ ev.name = normalizedName(join[c].name) THEN @
                    ELSE IF ev.typing THEN SetState(c, @, @ \cup {ev.name})
                    ELSE SetState(c, @, @ \ {ev.name})]
              /\ UNCHANGED <<messages, onlineUsers, infoMsg, decrypting>>
         [] ev.type = "room_cleared" ->
              /\ messages' = [messages EXCEPT ![c] = SetState(c, @, <<>>)]
              /\ typingUsers' = [typingUsers EXCEPT ![c] = SetState(c, @, {})]
              /\ infoMsg' = [infoMsg EXCEPT ![c] =
                              SetState(c, @, RoomClearedNotice(PayloadBy(ev)))]
              /\ decrypting' = [decrypting EXCEPT ![c] = Overtaken(@)]
              /\ UNCHANGED onlineUsers
    /\ UNCHANGED <<room, name, pass, joined, loading, message, errMsg>>
    /\ UNCHANGED <<rng, codecVars, normVars, refVars, join, sends, clear, store, nextId,
                   changeQ, countVars>>

\* a participant running other software broadcasts room_cleared on the
\* presence channel c is subscribed to, without a by field or with an empty one
PeerRoomCleared(c, ev) ==
    /\ presenceRef[c].st = "joined"
    /\ Len(presenceQ[c]) < MaxQueue
    /\ presenceQ' = [presenceQ EXCEPT ![c] = Append(@, ev)]
    /\ UNCHANGED <<rng, codecVars, normVars, uiVars, refVars, callVars, store, nextId,
                   changeQ, countVars>>

\* the composer's onChange: setMessage, then handleTypingActivity, which sends
\* typing=true on a change of the flag and arms the timer again
SetMessage(c, text, rest) ==
    /\ mounted[c] /\ joined[c]
    /\ text # message[c]
    /\ message' = [message EXCEPT ![c] = text]
    /\ LET to == IF TypingChanges(c, TRUE) THEN BroadcastReceivers(c, rest) ELSE {} IN
       /\ QueuesHaveRoom(presenceQ, to)
       /\ presenceQ' = Broadcast(presenceQ, to, TypingEvent(c, TRUE))
    /\ selfTypingRef' = [selfTypingRef EXCEPT ![c] = TRUE]
    /\ typingTimerRef' = [typingTimerRef EXCEPT ![c] = clearTimeout(@) + 1]
    /\ typingSent' = TypingSentAfter(c, TRUE)
    /\ UNCHANGED <<room, name, pass, joined, loading, messages, onlineUsers,
                   typingUsers, errMsg, infoMsg>>
    /\ UNCHANGED <<presenceRef, msgChannelRef, clipboard, mounted>>
    /\ UNCHANGED <<rng, codecVars, normVars, callVars, store, nextId, changeQ,
                   redelivered>>

\* the composer's onKeyDown for any key but Enter: handleTypingActivity
TypingKey(c, rest) ==
    /\ mounted[c] /\ joined[c]
    /\ LET to == IF TypingChanges(c, TRUE) THEN BroadcastReceivers(c, rest) ELSE {} IN
       /\ QueuesHaveRoom(presenceQ, to)
       /\ presenceQ' = Broadcast(presenceQ, to, TypingEvent(c, TRUE))
    /\ selfTypingRef' = [selfTypingRef EXCEPT ![c] = TRUE]
    /\ typingTimerRef' = [typingTimerRef EXCEPT ![c] = clearTimeout(@) + 1]
    /\ typingSent' = TypingSentAfter(c, TRUE)
    /\ UNCHANGED <<presenceRef, msgChannelRef, clipboard, mounted>>
    /\ UNCHANGED <<rng, codecVars, normVars, uiVars, callVars, store, nextId, changeQ,
                   redelivered>>

\* the typing timer fires after 1.5 s without activity: sendTyping(false)
TypingTimerFired(c, rest) ==
    /\ typingTimerRef[c] > 0
    /\ typingTimerRef' = [typingTimerRef EXCEPT ![c] = @ - 1]
    /\ typingSent' = TypingSentAfter(c, FALSE)
    /\ LET to == IF TypingChanges(c, FALSE) THEN BroadcastReceivers(c, rest) ELSE {} IN
       /\ QueuesHaveRoom(presenceQ, to)
       /\ presenceQ' = Broadcast(presenceQ, to, TypingEvent(c, FALSE))
    /\ selfTypingRef' = [selfTypingRef EXCEPT ![c] = FALSE]
    /\ UNCHANGED <<presenceRef, msgChannelRef, clipboard, mounted>>
    /\ UNCHANGED <<rng, codecVars, normVars, uiVars, callVars, store, nextId, changeQ,
                   redelivered>>

\* sendMessage up to the insert request: validation, the composer emptied,
\* sendTyping(false), the text encrypted and the row sent
SendStart(c, rest) ==
    /\ mounted[c] /\ joined[c]
    /\ errMsg' = [errMsg EXCEPT ![c] = ""]
    /\ infoMsg' = [infoMsg EXCEPT ![c] = NoInfo]
    /\ LET text == trim(message[c]) IN
       IF text = <<>> \/ normalizedRoom(room[c]) = <<>> \/ normalizedName(name[c]) = <<>>
          \/ pass[c] = <<>>
       THEN UNCHANGED <<message, selfTypingRef, presenceQ, sends, rng, typingSent>>
       ELSE /\ rng < 2 * MaxMsgs
            /\ message' = [message EXCEPT ![c] = <<>>]
            /\ LET to == IF TypingChanges(c, FALSE) THEN BroadcastReceivers(c, rest)
                         ELSE {}
               IN  /\ QueuesHaveRoom(presenceQ, to)
                   /\ presenceQ' = Broadcast(presenceQ, to, TypingEvent(c, FALSE))
            /\ selfTypingRef' = [selfTypingRef EXCEPT ![c] = FALSE]
            /\ typingSent' = TypingSentAfter(c, FALSE)
            /\ sends' = [sends EXCEPT ![c] = Append(@,
                  [text |-> text,
                   session |-> join[c].pass,
                   raw |-> room[c],
                   room |-> normalizedRoom(room[c]),
                   author |-> normalizedName(name[c]),
                   content |-> JSON_stringify(encryptText(text, pass[c], rng))])]
            /\ rng' = rng + 2
    /\ UNCHANGED <<room, name, pass, joined, loading, messages, onlineUsers, typingUsers>>
    /\ UNCHANGED <<presenceRef, msgChannelRef, typingTimerRef, clipboard, mounted>>
    /\ UNCHANGED <<codecVars, normVars, join, clear, decrypting, store, nextId, changeQ,
                   redelivered>>

\* the insert succeeds: the row is stored with its id and timestamp, and every
\* live subscription on its room is sent the INSERT event
InsertOk(c, i) ==
    /\ i \in 1..Len(sends[c])
    /\ LET task == sends[c][i]
           row == [id |-> nextId, room |-> task.room, author |-> task.author,
                   content |-> task.content, created_at |-> nextId]
           to == ChangeSubscribers(task.room)
       IN  /\ QueuesHaveRoom(changeQ, to)
           /\ store' = Append(store, row)
           /\ changeQ' = Broadcast(changeQ, to, [type |-> "INSERT", new |-> row])
    /\ nextId' = nextId + 1
    /\ sends' = [sends EXCEPT ![c] = RemoveAt(@, i)]
    /\ UNCHANGED <<rng, codecVars, normVars, uiVars, refVars, join, clear, decrypting,
                   presenceQ, countVars>>

\* what a failed send puts back in the composer: setMessage(text)
RestoredText_Empty(task) == <<>>

RestoredText(task) == task.text

\* the insert fails: the error is shown and the text put back in the composer
InsertError(c, i) ==
    /\ i \in 1..Len(sends[c])
    /\ errMsg' = [errMsg EXCEPT ![c] = SetState(c, @, "Errore Supabase INSERT")]
    /\ message' = [message EXCEPT ![c] = SetState(c, @, RestoredText(sends[c][i]))]
    /\ sends' = [sends EXCEPT ![c] = RemoveAt(@, i)]
    /\ UNCHANGED <<room, name, pass, joined, loading, messages, onlineUsers,
                   typingUsers, infoMsg>>
    /\ UNCHANGED <<rng, codecVars, normVars, refVars, join, clear, decrypting,
                   remoteVars, countVars>>

\* encryptText rejects (Web Crypto unavailable or failing): the catch block
\* shows its error and puts the text back; no insert is issued
EncryptError(c, i) ==
    /\ i \in 1..Len(sends[c])
    /\ errMsg' = [errMsg EXCEPT ![c] =
                    SetState(c, @, "Errore durante la cifratura del messaggio.")]
    /\ message' = [message EXCEPT ![c] = SetState(c, @, RestoredText(sends[c][i]))]
    /\ sends' = [sends EXCEPT ![c] = RemoveAt(@, i)]
    /\ UNCHANGED <<room, name, pass, joined, loading, messages, onlineUsers,
                   typingUsers, infoMsg>>
    /\ UNCHANGED <<rng, codecVars, normVars, refVars, join, clear, decrypting,
                   remoteVars, countVars>>

\* clearRoomHistory, confirmed by the user, up to the delete request
ClearStart(c) ==
    /\ mounted[c] /\ joined[c]
    /\ normalizedRoom(room[c]) # <<>>
    /\ clear[c].pc = "idle"
    /\ errMsg' = [errMsg EXCEPT ![c] = ""]
    /\ infoMsg' = [infoMsg EXCEPT ![c] = NoInfo]
    /\ clear' = [clear EXCEPT ![c] =
                   [pc |-> "sent", raw |-> room[c], room |-> normalizedRoom(room[c]),
                    by |-> normalizedName(name[c])]]
    /\ UNCHANGED <<room, name, pass, joined, loading, message, messages, onlineUsers,
                   typingUsers>>
    /\ UNCHANGED <<rng, codecVars, normVars, refVars, join, sends, decrypting,
                   remoteVars, countVars>>

\* the collaborator deletes the rows of the room: every live subscription on
\* the room is sent one DELETE event per row
RECURSIVE DeleteEvents(_)
DeleteEvents(rows) ==
    IF rows = <<>> THEN <<>>
    ELSE <<[type |-> "DELETE", old |-> [id |-> Head(rows).id]]>> \o DeleteEvents(Tail(rows))

RECURSIVE RowsNotIn(_, _)
RowsNotIn(rows, key) ==
    IF rows = <<>> THEN <<>>
    ELSE IF Head(rows).room = key THEN RowsNotIn(Tail(rows), key)
    ELSE <<Head(rows)>> \o RowsNotIn(Tail(rows), key)

DeleteExecuted(c) ==
    /\ clear[c].pc = "sent"
    /\ LET key == clear[c].room
           gone == DeleteEvents(SelectRoom(store, key))
           to == ChangeSubscribers(key)
       IN  /\ \A d \in to : Len(changeQ[d]) + Len(gone) <= MaxQueue
           /\ changeQ' = [d \in Clients |->
                            IF d \in to THEN changeQ[d] \o gone ELSE changeQ[d]]
           /\ store' = RowsNotIn(store, key)
    /\ clear' = [clear EXCEPT ![c].pc = "deleted"]
    /\ UNCHANGED <<rng, codecVars, normVars, uiVars, refVars, join, sends, decrypting,
                   nextId, presenceQ, countVars>>

\* the delete request returns without error: the local list and typing set
\* are emptied and room_cleared is broadcast on the presence channel
ClearOk(c, rest) ==
    /\ clear[c].pc = "deleted"
    /\ messages' = [messages EXCEPT ![c] = SetState(c, @, <<>>)]
    /\ typingUsers' = [typingUsers EXCEPT ![c] = SetState(c, @, {})]
    /\ infoMsg' = [infoMsg EXCEPT ![c] =
                     SetState(c, @, [text |-> "Cronologia della stanza eliminata."])]
    /\ LET to == BroadcastReceivers(c, rest) IN
       /\ QueuesHaveRoom(presenceQ, to)
       /\ presenceQ' = Broadcast(presenceQ, to,
                                 [type |-> "room_cleared", by |-> clear[c].by])
    /\ clear' = [clear EXCEPT ![c] = [pc |-> "idle"]]
    /\ UNCHANGED <<room, name, pass, joined, loading, message, onlineUsers, errMsg>>
    /\ UNCHANGED <<rng, codecVars, normVars, refVars, join, sends, decrypting, store,
                   nextId, changeQ, countVars>>

\* clearRoomHistory with a blank normalized room: the first line returns
ClearBlank(c) ==
    /\ mounted[c] /\ joined[c]
    /\ normalizedRoom(room[c]) = <<>>
    /\ UNCHANGED vars

\* clearRoomHistory with the user answering no to window.confirm
ClearDeclined(c) ==
    /\ mounted[c] /\ joined[c]
    /\ normalizedRoom(room[c]) # <<>>
    /\ UNCHANGED vars

\* an error return that empties the list and the typing set as the success
\* path does
ClearError_Wipes(c) ==
    /\ clear[c].pc = "sent"
    /\ errMsg' = [errMsg EXCEPT ![c] = SetState(c, @, "Errore DELETE")]
    /\ messages' = [messages EXCEPT ![c] = SetState(c, @, <<>>)]
    /\ typingUsers' = [typingUsers EXCEPT ![c] = SetState(c, @, {})]
    /\ clear' = [clear EXCEPT ![c] = [pc |-> "idle"]]
    /\ UNCHANGED <<room, name, pass, joined, loading, message, onlineUsers, infoMsg>>
    /\ UNCHANGED <<rng, codecVars, normVars, refVars, join, sends, decrypting,
                   remoteVars, countVars>>

\* the delete request returns an error: nothing was deleted
ClearError(c) ==
    /\ clear[c].pc = "sent"
    /\ errMsg' = [errMsg EXCEPT ![c] = SetState(c, @, "Errore DELETE")]
    /\ clear' = [clear EXCEPT ![c] = [pc |-> "idle"]]
    /\ UNCHANGED <<room, name, pass, joined, loading, message, messages, onlineUsers,
                   typingUsers, infoMsg>>
    /\ UNCHANGED <<rng, codecVars, normVars, refVars, join, sends, decrypting,
                   remoteVars, countVars>>


\* an invite link that also carries the password field
InviteParams_WithPass(c) ==
    [room |-> normalizedRoom(room[c]), name |-> <<>>, pass |-> pass[c]]

\* the query parameters copyInviteLink sets on the page's URL
InviteParams(c) == [room |-> normalizedRoom(room[c]), name |-> <<>>]

\* copyInviteLink: the URL written to the clipboard
CopyInviteLink(c) ==
    /\ mounted[c] /\ joined[c]
    /\ clipboard' = [clipboard EXCEPT ![c] =
                       [copied |-> TRUE, raw |-> room[c]] @@ InviteParams(c)]
    /\ clipboard'[c] # clipboard[c]
    /\ UNCHANGED <<presenceRef, msgChannelRef, selfTypingRef, typingTimerRef, mounted>>
    /\ UNCHANGED <<rng, codecVars, normVars, uiVars, callVars, remoteVars, countVars>>

\* the onClick handler of the Esci button
Esci(c) ==
    /\ mounted[c]
    /\ QueuesHaveRoom(presenceQ, Clients \ {c})
    /\ msgChannelRef' = [msgChannelRef EXCEPT ![c] = Unsubscribed(@)]
    /\ presenceRef' = [presenceRef EXCEPT ![c] = Unsubscribed(@)]
    /\ changeQ' = [changeQ EXCEPT ![c] = <<>>]
    /\ presenceQ' = PresenceQAfterLeave(c)
    /\ joined' = [joined EXCEPT ![c] = FALSE]
    /\ onlineUsers' = [onlineUsers EXCEPT ![c] = 0]
    /\ typingUsers' = [typingUsers EXCEPT ![c] = {}]
    /\ typingTimerRef' = [typingTimerRef EXCEPT ![c] = clearTimeout(@)]
    /\ selfTypingRef' = [selfTypingRef EXCEPT ![c] = FALSE]
    /\ messages' = [messages EXCEPT ![c] = <<>>]
    /\ UNCHANGED <<room, name, pass, loading, message, errMsg, infoMsg>>
    /\ UNCHANGED <<clipboard, mounted>>
    /\ UNCHANGED <<rng, codecVars, normVars, callVars, store, nextId, countVars>>

\* the Esci button is on the page while the client is joined
Leave(c) == joined[c] /\ Esci(c)

\* the cleanup of the mount effect
Unmount(c) ==
    /\ mounted[c]
    /\ QueuesHaveRoom(presenceQ, Clients \ {c})
    /\ mounted' = [mounted EXCEPT ![c] = FALSE]
    /\ msgChannelRef' = [msgChannelRef EXCEPT ![c] = Unsubscribed(@)]
    /\ presenceRef' = [presenceRef EXCEPT ![c] = Unsubscribed(@)]
    /\ changeQ' = [changeQ EXCEPT ![c] = <<>>]
    /\ presenceQ' = PresenceQAfterLeave(c)
    /\ typingTimerRef' = [typingTimerRef EXCEPT ![c] = clearTimeout(@)]
    /\ UNCHANGED <<selfTypingRef, clipboard>>
    /\ UNCHANGED <<rng, codecVars, normVars, uiVars, callVars, store, nextId, countVars>>

CodecIdle ==
    /\ encIn = [plain |-> <<>>, password |-> <<>>]
    /\ encCall = [done |-> FALSE]
    /\ nonces = <<>>
    /\ decCall = [done |-> FALSE]

NormIdle ==
    /\ rawRoomA = <<>>
    /\ rawRoomB = <<>>
    /\ normCall = [done |-> FALSE]

\* the form as a user left it who has typed a name and a password
FormFilled ==
    /\ room = [c \in Clients |-> <<>>]
    /\ name = [c \in Clients |-> IF c = "c1" THEN <<"a">> ELSE <<"b", " ">>]
    /\ pass = [c \in Clients |-> <<"p">>]

\* nobody has joined, written or copied anything yet
ClientsIdle ==
    /\ joined = [c \in Clients |-> FALSE]
    /\ loading = [c \in Clients |-> FALSE]
    /\ message = [c \in Clients |-> <<>>]
    /\ messages = [c \in Clients |-> <<>>]
    /\ onlineUsers = [c \in Clients |-> 0]
    /\ typingUsers = [c \in Clients |-> {}]
    /\ errMsg = [c \in Clients |-> ""]
    /\ infoMsg = [c \in Clients |-> NoInfo]
    /\ presenceRef = [c \in Clients |-> NoChannel]
    /\ msgChannelRef = [c \in Clients |-> NoChannel]
    /\ selfTypingRef = [c \in Clients |-> FALSE]
    /\ typingTimerRef = [c \in Clients |-> 0]
    /\ clipboard = [c \in Clients |-> [copied |-> FALSE]]
    /\ mounted = [c \in Clients |-> TRUE]
    /\ join = [c \in Clients |-> [pc |-> "idle"]]
    /\ sends = [c \in Clients |-> <<>>]
    /\ clear = [c \in Clients |-> [pc |-> "idle"]]
    /\ decrypting = [c \in Clients |-> <<>>]
    /\ changeQ = [c \in Clients |-> <<>>]
    /\ presenceQ = [c \in Clients |-> <<>>]
    /\ redelivered = 0
    /\ typingSent = [c \in Clients |-> <<>>]

InitSession ==
    /\ rng = 0
    /\ CodecIdle
    /\ NormIdle
    /\ FormFilled
    /\ ClientsIdle
    /\ store = <<>>
    /\ nextId = 1

\* one client's sessions: it joins, writes, leaves and joins again
NextSession ==
    \/ SetRoom("c1", <<"T">>)
    \/ JoinStart("c1")
    \/ BackfillOk("c1")
    \/ BackfillError("c1")
    \/ \E i \in 1..MaxMsgs : BackfillDecrypt("c1", i)
    \/ JoinFinish("c1")
    \/ MsgSubscribed("c1")
    \/ PresenceSubscribed("c1")
    \/ \E again \in BOOLEAN : DeliverChange("c1", again)
    \/ \E i \in 1..(MaxMsgs + MaxRedeliver) : InsertDecrypted("c1", i)
    \/ DeliverPresence("c1")
    \/ \E rest \in BOOLEAN : SetMessage("c1", <<"h", " ">>, rest)
    \/ \E rest \in BOOLEAN : TypingTimerFired("c1", rest)
    \/ \E rest \in BOOLEAN : SendStart("c1", rest)
    \/ \E i \in 1..MaxMsgs : InsertOk("c1", i)
    \/ Leave("c1")

SpecSession == InitSession /\ [][NextSession]_vars

\* every operation that names a room, over sessions in which the room is
\* typed in two spellings
NextKeys ==
    \/ \E raw \in {<<"T">>, <<" ", "t">>} : SetRoom("c1", raw)
    \/ JoinStart("c1")
    \/ BackfillOk("c1")
    \/ \E i \in 1..MaxMsgs : BackfillDecrypt("c1", i)
    \/ JoinFinish("c1")
    \/ MsgSubscribed("c1")
    \/ PresenceSubscribed("c1")
    \/ DeliverChange("c1", FALSE)
    \/ \E i \in 1..MaxMsgs : InsertDecrypted("c1", i)
    \/ DeliverPresence("c1")
    \/ \E rest \in BOOLEAN : SetMessage("c1", <<"h", " ">>, rest)
    \/ \E rest \in BOOLEAN : TypingTimerFired("c1", rest)
    \/ rng = 0 /\ \E rest \in BOOLEAN : SendStart("c1", rest)
    \/ \E i \in 1..MaxMsgs : InsertOk("c1", i)
    \/ ClearStart("c1")
    \/ DeleteExecuted("c1")
    \/ \E rest \in BOOLEAN : ClearOk("c1", rest)
    \/ CopyInviteLink("c1")
    \/ Leave("c1")

SpecKeys == InitSession /\ [][NextKeys]_vars

\* the delivery scenario: A joins "Test" and writes one message; once the
\* message is stored B joins "test" with the same password.  Nobody leaves or
\* clears and the collaborator answers every request successfully.
NextDelivery ==
    \/ SetRoom("c1", <<"T">>)
    \/ SetRoom("c2", <<"t">>)
    \/ JoinStart("c1")
    \/ store # <<>> /\ JoinStart("c2")
    \/ \E c \in Clients : BackfillOk(c)
    \/ \E c \in Clients : \E i \in 1..MaxMsgs : BackfillDecrypt(c, i)
    \/ \E c \in Clients : JoinFinish(c)
    \/ \E c \in Clients : MsgSubscribed(c)
    \/ \E c \in Clients : PresenceSubscribed(c)
    \/ \E c \in Clients : \E again \in BOOLEAN : DeliverChange(c, again)
    \/ \E c \in Clients : \E i \in 1..(MaxMsgs + MaxRedeliver) : InsertDecrypted(c, i)
    \/ \E c \in Clients : DeliverPresence(c)
    \/ \E rest \in BOOLEAN : SetMessage("c1", <<"h">>, rest)
    \/ \E rest \in BOOLEAN : TypingTimerFired("c1", rest)
    \/ rng = 0 /\ \E rest \in BOOLEAN : SendStart("c1", rest)
    \/ \E i \in 1..MaxMsgs : InsertOk("c1", i)

\* every step that is pending is eventually taken: the users go through the
\* scenario, requests are answered, events delivered and promises settled
SpecDelivery == InitSession /\ [][NextDelivery]_vars /\ WF_vars(NextDelivery)

\* a room that already stores rows written by others, oldest first
StoredRow(i) ==
    [id |-> i, room |-> <<"t">>, author |-> <<"b">>,
     content |-> JSON_stringify(encryptText(<<"h">>, <<"p">>, 2 * (i - 1))),
     created_at |-> i]

InitBackfill ==
    /\ CodecIdle
    /\ NormIdle
    /\ FormFilled
    /\ ClientsIdle
    /\ \E n \in 0..MaxStored :
         /\ store = [i \in 1..n |-> StoredRow(i)]
         /\ nextId = n + 1
         /\ rng = 2 * n

\* joins to the stored room, the backfill query scaled down to a page of
\* 1..MaxPage rows
NextBackfill ==
    \/ \E raw \in {<<"T">>, <<"q">>} : SetRoom("c1", raw)
    \/ JoinStart("c1")
    \/ \E n \in 1..MaxPage : BackfillAnswered("c1", n)
    \/ \E i \in 1..MaxPage : BackfillDecrypt("c1", i)
    \/ JoinFinish("c1")
    \/ MsgSubscribed("c1")
    \/ PresenceSubscribed("c1")
    \/ DeliverPresence("c1")
    \/ Leave("c1")

SpecBackfill == InitBackfill /\ [][NextBackfill]_vars

\* A writes one message under its password; B joins the same room, before or
\* after the message is stored, under a password A does not use
NextWrongPass ==
    \/ SetRoom("c1", <<"T">>)
    \/ SetRoom("c2", <<"t">>)
    \/ \E raw \in {<<"p">>, <<"hs">>} : SetPass("c1", raw)
    \/ \E raw \in {<<"w">>, <<"ls">>} : SetPass("c2", raw)
    \/ \E c \in Clients : JoinStart(c)
    \/ \E c \in Clients : BackfillOk(c)
    \/ \E c \in Clients : \E i \in 1..MaxMsgs : BackfillDecrypt(c, i)
    \/ \E c \in Clients : JoinFinish(c)
    \/ \E c \in Clients : MsgSubscribed(c)
    \/ \E c \in Clients : PresenceSubscribed(c)
    \/ \E c \in Clients : DeliverChange(c, FALSE)
    \/ \E c \in Clients : \E i \in 1..MaxMsgs : InsertDecrypted(c, i)
    \/ \E c \in Clients : DeliverPresence(c)
    \/ \E rest \in BOOLEAN : SetMessage("c1", <<"h">>, rest)
    \/ \E rest \in BOOLEAN : TypingTimerFired("c1", rest)
    \/ rng = 0 /\ \E rest \in BOOLEAN : SendStart("c1", rest)
    \/ \E i \in 1..MaxMsgs : InsertOk("c1", i)

SpecWrongPass == InitSession /\ [][NextWrongPass]_vars

\* the clear-history scenario: A and B join the room, A writes one message and,
\* while it is stored, clears the history.  Nobody leaves and the collaborator
\* answers every request successfully.
NextClear ==
    \/ SetRoom("c1", <<"T">>)
    \/ SetRoom("c2", <<"t">>)
    \/ \E c \in Clients : JoinStart(c)
    \/ \E c \in Clients : BackfillOk(c)
    \/ \E c \in Clients : \E i \in 1..MaxMsgs : BackfillDecrypt(c, i)
    \/ \E c \in Clients : JoinFinish(c)
    \/ \E c \in Clients : MsgSubscribed(c)
    \/ \E c \in Clients : PresenceSubscribed(c)
    \/ \E c \in Clients : DeliverChange(c, FALSE)
    \/ \E c \in Clients : \E i \in 1..MaxMsgs : InsertDecrypted(c, i)
    \/ \E c \in Clients : DeliverPresence(c)
    \/ \E rest \in BOOLEAN : SetMessage("c1", <<"h">>, rest)
    \/ \E rest \in BOOLEAN : TypingTimerFired("c1", rest)
    \/ rng = 0 /\ \E rest \in BOOLEAN : SendStart("c1", rest)
    \/ \E i \in 1..MaxMsgs : InsertOk("c1", i)
    \/ store # <<>> /\ ClearStart("c1")
    \/ DeleteExecuted("c1")
    \/ \E rest \in BOOLEAN : ClearOk("c1", rest)

SpecClear == InitSession /\ [][NextClear]_vars /\ WF_vars(NextClear)

\* one client writes up to MaxMsgs messages and clears the room, with change
\* events delivered at least once
NextDelete ==
    \/ SetRoom("c1", <<"T">>)
    \/ JoinStart("c1")
    \/ BackfillOk("c1")
    \/ JoinFinish("c1")
    \/ MsgSubscribed("c1")
    \/ PresenceSubscribed("c1")
    \/ \E again \in BOOLEAN : DeliverChange("c1", again)
    \/ \E i \in 1..(MaxMsgs + MaxRedeliver) : InsertDecrypted("c1", i)
    \/ DeliverPresence("c1")
    \/ \E rest \in BOOLEAN : SetMessage("c1", <<"h">>, rest)
    \/ \E rest \in BOOLEAN : TypingTimerFired("c1", rest)
    \/ \E rest \in BOOLEAN : SendStart("c1", rest)
    \/ \E i \in 1..MaxMsgs : InsertOk("c1", i)
    \/ ClearStart("c1")
    \/ DeleteExecuted("c1")
    \/ \E rest \in BOOLEAN : ClearOk("c1", rest)

SpecDelete == InitSession /\ [][NextDelete]_vars

\* one client that fills the form and the composer with valid, blank and
\* white-space-only values, joins and sends
NextForm ==
    \/ \E raw \in {<<" ">>, <<"T">>} : SetRoom("c1", raw)
    \/ \E raw \in {<<" ">>, <<"a">>} : SetName("c1", raw)
    \/ \E raw \in {<<>>, <<"p">>, <<"w">>} : SetPass("c1", raw)
    \/ JoinStart("c1")
    \/ BackfillOk("c1")
    \/ JoinFinish("c1")
    \/ MsgSubscribed("c1")
    \/ PresenceSubscribed("c1")
    \/ DeliverChange("c1", FALSE)
    \/ \E i \in 1..MaxMsgs : InsertDecrypted("c1", i)
    \/ DeliverPresence("c1")
    \/ \E text \in {<<>>, <<" ">>, <<"h">>}, rest \in BOOLEAN : SetMessage("c1", text, rest)
    \/ \E rest \in BOOLEAN : TypingTimerFired("c1", rest)
    \/ nextId = 1 /\ \E rest \in BOOLEAN : SendStart("c1", rest)
    \/ \E i \in 1..MaxMsgs : InsertOk("c1", i)
    \/ \E i \in 1..MaxMsgs : InsertError("c1", i)
    \/ \E i \in 1..MaxMsgs : EncryptError("c1", i)

SpecForm == InitSession /\ [][NextForm]_vars

\* one client whose password field takes two values: join, send, typing,
\* clear, invite link and leave
NextSecret ==
    \/ SetRoom("c1", <<"T">>)
    \/ \E raw \in {<<"p">>, <<"w">>} : SetPass("c1", raw)
    \/ JoinStart("c1")
    \/ BackfillOk("c1")
    \/ \E i \in 1..MaxMsgs : BackfillDecrypt("c1", i)
    \/ JoinFinish("c1")
    \/ MsgSubscribed("c1")
    \/ PresenceSubscribed("c1")
    \/ DeliverChange("c1", FALSE)
    \/ \E i \in 1..MaxMsgs : InsertDecrypted("c1", i)
    \/ DeliverPresence("c1")
    \/ \E rest \in BOOLEAN : SetMessage("c1", <<"h">>, rest)
    \/ \E rest \in BOOLEAN : TypingTimerFired("c1", rest)
    \/ rng = 0 /\ \E rest \in BOOLEAN : SendStart("c1", rest)
    \/ \E i \in 1..MaxMsgs : InsertOk("c1", i)
    \/ ClearStart("c1")
    \/ DeleteExecuted("c1")
    \/ \E rest \in BOOLEAN : ClearOk("c1", rest)
    \/ CopyInviteLink("c1")
    \/ Leave("c1")

SpecSecret == InitSession /\ [][NextSecret]_vars

\* the life of one client's session: join, failed join, typing, leave, the
\* leave handler run once more, and the page closed at any moment
NextLife ==
    \/ SetRoom("c1", <<"T">>)
    \/ JoinStart("c1")
    \/ BackfillOk("c1")
    \/ BackfillError("c1")
    \/ JoinFinish("c1")
    \/ MsgSubscribed("c1")
    \/ PresenceSubscribed("c1")
    \/ DeliverPresence("c1")
    \/ \E rest \in BOOLEAN : SetMessage("c1", <<"h">>, rest)
    \/ \E rest \in BOOLEAN : TypingKey("c1", rest)
    \/ \E rest \in BOOLEAN : TypingTimerFired("c1", rest)
    \/ Leave("c1")
    \/ ~joined["c1"] /\ Esci("c1")
    \/ Unmount("c1")

SpecLife == InitSession /\ [][NextLife]_vars

\* one client typing, sending, leaving and joining again
NextTyping ==
    \/ SetRoom("c1", <<"T">>)
    \/ JoinStart("c1")
    \/ BackfillOk("c1")
    \/ \E i \in 1..MaxMsgs : BackfillDecrypt("c1", i)
    \/ JoinFinish("c1")
    \/ MsgSubscribed("c1")
    \/ PresenceSubscribed("c1")
    \/ DeliverPresence("c1")
    \/ \E text \in {<<>>, <<"h">>}, rest \in BOOLEAN : SetMessage("c1", text, rest)
    \/ \E rest \in BOOLEAN : TypingKey("c1", rest)
    \/ \E rest \in BOOLEAN : TypingTimerFired("c1", rest)
    \/ rng = 0 /\ \E rest \in BOOLEAN : SendStart("c1", rest)
    \/ \E i \in 1..MaxMsgs : InsertOk("c1", i)
    \/ Leave("c1")

SpecTyping == InitSession /\ [][NextTyping]_vars

\* two clients in one room: c2 types, c1 receives; the name fields take
\* equal, different and blank values
NextPeers ==
    \/ \E c \in Clients : SetRoom(c, <<"T">>)
    \/ SetName("c1", <<"b">>)
    \/ \E raw \in {<<"a">>, <<" ">>} : SetName("c2", raw)
    \/ \E c \in Clients : JoinStart(c)
    \/ \E c \in Clients : BackfillOk(c)
    \/ \E c \in Clients : JoinFinish(c)
    \/ \E c \in Clients : PresenceSubscribed(c)
    \/ \E c \in Clients : DeliverPresence(c)
    \/ \E rest \in BOOLEAN : TypingKey("c2", rest)
    \/ \E rest \in BOOLEAN : TypingTimerFired("c2", rest)

SpecPeers == InitSession /\ [][NextPeers]_vars

\* c1 types, sends and clears the room; c2 receives, and is also sent
\* room_cleared events that name nobody
NextNotice ==
    \/ SetRoom("c1", <<"T">>)
    \/ SetRoom("c2", <<"t">>)
    \/ \E c \in Clients : JoinStart(c)
    \/ \E c \in Clients : BackfillOk(c)
    \/ \E c \in Clients : \E i \in 1..MaxMsgs : BackfillDecrypt(c, i)
    \/ \E c \in Clients : JoinFinish(c)
    \/ \E c \in Clients : MsgSubscribed(c)
    \/ \E c \in Clients : PresenceSubscribed(c)
    \/ \E c \in Clients : DeliverChange(c, FALSE)
    \/ \E c \in Clients : \E i \in 1..MaxMsgs : InsertDecrypted(c, i)
    \/ \E c \in Clients : DeliverPresence(c)
    \/ \E rest \in BOOLEAN : SetMessage("c1", <<"h">>, rest)
    \/ rng = 0 /\ \E rest \in BOOLEAN : SendStart("c1", rest)
    \/ \E i \in 1..MaxMsgs : InsertOk("c1", i)
    \/ store # <<>> /\ ClearStart("c1")
    \/ DeleteExecuted("c1")
    \/ \E rest \in BOOLEAN : ClearOk("c1", rest)
    \/ \E ev \in {[type |-> "room_cleared"], [type |-> "room_cleared", by |-> <<>>]} :
          messages["c2"] # <<>> /\ PeerRoomCleared("c2", ev)

SpecNotice == InitSession /\ [][NextNotice]_vars

\* one client sends messages and receives their INSERT events, each delivered
\* once and in order; the decryptions complete in any order
NextLive ==
    \/ SetRoom("c1", <<"T">>)
    \/ JoinStart("c1")
    \/ BackfillOk("c1")
    \/ JoinFinish("c1")
    \/ MsgSubscribed("c1")
    \/ PresenceSubscribed("c1")
    \/ DeliverPresence("c1")
    \/ \E rest \in BOOLEAN : SetMessage("c1", <<"h">>, rest)
    \/ store = <<>> /\ joined["c1"] /\ \E rest \in BOOLEAN : SendStart("c1", rest)
    \/ \E i \in 1..MaxMsgs : InsertOk("c1", i)
    \/ DeliverChange("c1", FALSE)
    \/ \E i \in 1..MaxMsgs : InsertDecrypted("c1", i)

SpecLive == InitSession /\ [][NextLive]_vars

\* A is in room "T" and sends "h" at any moment while B joins the same room:
\* the row can be stored before B's query is answered, while B's batch is
\* being decrypted, while B's channel is being subscribed, or after.
NextHandover ==
    \/ SetRoom("c1", <<"T">>)
    \/ SetRoom("c2", <<"t">>)
    \/ \E c \in Clients : JoinStart(c)
    \/ \E c \in Clients : BackfillOk(c)
    \/ \E i \in 1..MaxMsgs : BackfillDecrypt("c2", i)
    \/ \E c \in Clients : JoinFinish(c)
    \/ \E c \in Clients : MsgSubscribed(c)
    \/ \E c \in Clients : PresenceSubscribed(c)
    \/ \E c \in Clients : DeliverPresence(c)
    \/ \E rest \in BOOLEAN : SetMessage("c1", <<"h">>, rest)
    \/ rng = 0 /\ \E rest \in BOOLEAN : SendStart("c1", rest)
    \/ \E i \in 1..MaxMsgs : InsertOk("c1", i)
    \/ \E c \in Clients : DeliverChange(c, FALSE)
    \/ \E c \in Clients : \E i \in 1..MaxMsgs : InsertDecrypted(c, i)

\* requests are answered, events delivered and promises settled
SpecHandover == InitSession /\ [][NextHandover]_vars /\ WF_vars(NextHandover)

\* A and B are in one room, B types and sends "h"; A asks to clear the
\* history: with a blank room field, answering no, or answering yes with the
\* delete then failing or succeeding
NextClearFail ==
    \/ SetRoom("c1", <<"T">>)
    \/ loading["c1"] /\ SetRoom("c1", <<" ">>)
    \/ SetRoom("c2", <<"t">>)
    \/ \E c \in Clients : JoinStart(c)
    \/ \E c \in Clients : BackfillOk(c)
    \/ \E i \in 1..MaxMsgs : BackfillDecrypt("c1", i)
    \/ \E c \in Clients : JoinFinish(c)
    \/ \E c \in Clients : MsgSubscribed(c)
    \/ \E c \in Clients : PresenceSubscribed(c)
    \/ \E c \in Clients : DeliverPresence(c)
    \/ \E rest \in BOOLEAN : SetMessage("c2", <<"h">>, rest)
    \/ rng = 0 /\ \E rest \in BOOLEAN : SendStart("c2", rest)
    \/ \E i \in 1..MaxMsgs : InsertOk("c2", i)
    \/ \E c \in Clients : DeliverChange(c, FALSE)
    \/ \E c \in Clients : \E i \in 1..MaxMsgs : InsertDecrypted(c, i)
    \/ ClearBlank("c1")
    \/ ClearDeclined("c1")
    \/ ClearStart("c1")
    \/ ClearError("c1")
    \/ DeleteExecuted("c1")
    \/ \E rest \in BOOLEAN : ClearOk("c1", rest)

SpecClearFail == InitSession /\ [][NextClearFail]_vars

\* one joined client writes "h" or "n" in the composer and sends, also while
\* an earlier send is in flight; each send succeeds or fails
NextCompose ==
    \/ SetRoom("c1", <<"T">>)
    \/ JoinStart("c1")
    \/ BackfillOk("c1")
    \/ JoinFinish("c1")
    \/ MsgSubscribed("c1")
    \/ PresenceSubscribed("c1")
    \/ DeliverPresence("c1")
    \/ \E text \in {<<"h">>, <<"n">>} : \E rest \in BOOLEAN : SetMessage("c1", text, rest)
    \/ \E rest \in BOOLEAN : TypingTimerFired("c1", rest)
    \/ \E rest \in BOOLEAN : SendStart("c1", rest)
    \/ \E i \in 1..MaxMsgs : InsertOk("c1", i)
    \/ \E i \in 1..MaxMsgs : InsertError("c1", i)
    \/ \E i \in 1..MaxMsgs : EncryptError("c1", i)
    \/ DeliverChange("c1", FALSE)
    \/ \E i \in 1..MaxMsgs : InsertDecrypted("c1", i)

SpecCompose == InitSession /\ [][NextCompose]_vars

\* A and B join one room; A presses keys in the composer and then leaves or
\* closes the page, before or after its typing timer has fired; A joins only
\* before it has transmitted a typing flag, B stays
NextStale ==
    \/ SetRoom("c1", <<"T">>)
    \/ SetRoom("c2", <<"t">>)
    \/ typingSent["c1"] = <<>> /\ JoinStart("c1")
    \/ JoinStart("c2")
    \/ \E c \in Clients : BackfillOk(c)
    \/ \E c \in Clients : JoinFinish(c)
    \/ \E c \in Clients : MsgSubscribed(c)
    \/ \E c \in Clients : PresenceSubscribed(c)
    \/ \E c \in Clients : DeliverPresence(c)
    \/ \E rest \in BOOLEAN : TypingKey("c1", rest)
    \/ \E rest \in BOOLEAN : TypingTimerFired("c1", rest)
    \/ Leave("c1")
    \/ Unmount("c1")

\* events are delivered and pending timers fire
SpecStale == InitSession /\ [][NextStale]_vars /\ WF_vars(NextStale)

\* the awaits of joinRoom: the query is answered, each decryption of the
\* batch settles, Promise.all resolves
JoinProgress(c) ==
    \/ BackfillOk(c)
    \/ BackfillError(c)
    \/ \E i \in 1..MaxStored : BackfillDecrypt(c, i)
    \/ JoinFinish(c)

\* joins to a room that stores 0..MaxStored rows written under "p", with the
\* form blank or filled, under "p" or another password; the user edits the
\* form, leaves and closes the page at any moment the page allows
NextJoin ==
    \/ \E raw \in {<<"T">>, <<" ">>} : SetRoom("c1", raw)
    \/ \E raw \in {<<"p">>, <<"w">>} : SetPass("c1", raw)
    \/ JoinStart("c1")
    \/ JoinProgress("c1")
    \/ MsgSubscribed("c1")
    \/ PresenceSubscribed("c1")
    \/ DeliverPresence("c1")
    \/ Leave("c1")
    \/ Unmount("c1")

\* a pending await of joinRoom is eventually resumed
SpecJoin == InitBackfill /\ [][NextJoin]_vars /\ WF_vars(JoinProgress("c1"))







\* ------------------------------------------------------- codec harness
PlainUnits == {"h", "hs", "ls", "bom"}

RECURSIVE SeqsUpTo(_, _)
SeqsUpTo(S, n) ==
    IF n = 0 THEN {<<>>}
    ELSE LET shorter == SeqsUpTo(S, n - 1) IN
         shorter \cup {Append(s, x) : s \in {t \in shorter : Len(t) = n - 1}, x \in S}

Plaintexts == SeqsUpTo(PlainUnits, MaxPlainLen)

Passwords == {<<"p">>, <<"hs">>, <<"ls">>}

\* the fields of env without one
Without(env, field) == [n \in (DOMAIN env) \ {field} |-> env[n]]

\* wire contents that are no v1 AES-GCM envelope, built around a real one
BadWire(env) ==
    { Txt(<<>>), Txt(<<"h">>), Txt(<<"h", " ", "h">>),
      [k |-> "json", val |-> [ty |-> "null"]],
      [k |-> "json", val |-> [ty |-> "num"]],
      [k |-> "json", val |-> [ty |-> "arr"]],
      [k |-> "json", val |-> [ty |-> "str"]],
      [k |-> "json", val |-> [ty |-> "obj", f |-> [x |-> Txt(<<"h">>)]]],
      JSON_stringify([env EXCEPT !.v = "v2"]),
      JSON_stringify([env EXCEPT !.alg = "AES-CBC"]),
      JSON_stringify(Without(env, "v")),
      JSON_stringify(Without(env, "alg")),
      JSON_stringify(Without(env, "iv")),
      JSON_stringify(Without(env, "salt")),
      JSON_stringify(Without(env, "ct")) }

InitCodec ==
    /\ rng = 0
    /\ InitChat
    /\ encIn \in [plain : Plaintexts, password : Passwords]
    /\ encCall = [done |-> FALSE]
    /\ nonces = <<>>
    /\ decCall = [done |-> FALSE]
    /\ NormIdle

\* one call of encryptText
CodecEncrypt ==
    /\ Len(nonces) < MaxEnc
    /\ LET env == encryptText(encIn.plain, encIn.password, rng) IN
       /\ encCall' = [done |-> TRUE, plain |-> encIn.plain,
                      password |-> encIn.password, env |-> env]
       /\ nonces' = Append(nonces, [iv |-> env.iv, salt |-> env.salt])
    /\ rng' = rng + 2
    /\ decCall' = [done |-> FALSE]
    /\ UNCHANGED <<encIn, normVars, chatVars>>

\* one call of decryptTextFromEnvelope on the serialized last envelope
CodecDecrypt(password) ==
    /\ encCall.done
    /\ LET contentField == JSON_stringify(encCall.env)
           r == decryptTextFromEnvelope(contentField, password)
       IN  decCall' = [done |-> TRUE, contentField |-> contentField,
                       password |-> password, raised |-> r.raised, value |-> r.value]
    /\ UNCHANGED <<rng, encIn, encCall, nonces, normVars, chatVars>>

\* one call of decryptTextFromEnvelope on content that is no envelope
CodecDecryptBad(password) ==
    /\ encCall.done
    /\ \E contentField \in BadWire(encCall.env) :
         LET r == decryptTextFromEnvelope(contentField, password) IN
         decCall' = [done |-> TRUE, contentField |-> contentField,
                     password |-> password, raised |-> r.raised, value |-> r.value]
    /\ UNCHANGED <<rng, encIn, encCall, nonces, normVars, chatVars>>

NextCodec ==
    \/ CodecEncrypt
    \/ \E password \in Passwords : CodecDecrypt(password)
    \/ \E password \in Passwords : CodecDecryptBad(password)

SpecCodec == InitCodec /\ [][NextCodec]_vars

\* -------------------------------------------------- normalizer harness
RoomUnits == {" ", "T", "t"}

RawRooms == SeqsUpTo(RoomUnits, MaxRoomLen)

InitNorm ==
    /\ rng = 0
    /\ InitChat
    /\ CodecIdle
    /\ rawRoomA \in RawRooms
    /\ rawRoomB \in RawRooms
    /\ normCall = [done |-> FALSE]

\* the normalizer applied to both inputs, and again to its own result
Normalize ==
    /\ ~normCall.done
    /\ normCall' = [done |-> TRUE,
                    keyA |-> normalizedRoom(rawRoomA),
                    keyB |-> normalizedRoom(rawRoomB),
                    keyAA |-> normalizedRoom(normalizedRoom(rawRoomA))]
    /\ UNCHANGED <<rng, codecVars, rawRoomA, rawRoomB, chatVars>>

NextNorm == Normalize

SpecNorm == InitNorm /\ [][NextNorm]_vars

\* ------------------------------------------------------------- claims
\* the last decrypt call was given the serialized last envelope
DecryptedLastEnvelope ==
    /\ encCall.done
    /\ decCall.done
    /\ decCall.contentField = JSON_stringify(encCall.env)

\* C1 (as stated): decrypting the serialized envelope of encryptText(P, K) with
\* the same password K returns exactly P, for every plaintext P and password K.
C1_RoundTrip ==
    (DecryptedLastEnvelope /\ decCall.password = encCall.password)
        => (~decCall.raised /\ decCall.value = Txt(encCall.plain))

\* what the spec calls no envelope: not JSON, JSON that is no object or lacks
\* one of the five fields, or a wrong version or algorithm tag
NotAnEnvelope(str) ==
    \/ str.k # "json"
    \/ str.val.ty # "obj"
    \/ {"v", "alg", "iv", "salt", "ct"} \ DOMAIN str.val.f # {}
    \/ str.val.f.v # "v1"
    \/ str.val.f.alg # "AES-GCM"

\* C2: on wire content that is not valid JSON, or JSON lacking envelope fields
\* (null, numbers, arrays included), or with v other than "v1" or alg other than
\* "AES-GCM", decryptTextFromEnvelope returns its input unchanged and raises nothing.
C2_FallbackTotal ==
    (decCall.done /\ NotAnEnvelope(decCall.contentField))
        => (~decCall.raised /\ decCall.value = decCall.contentField)

C2_Witness ==
    /\ decCall.done
    /\ decCall.contentField.k = "json"
    /\ decCall.contentField.val.ty = "obj"
    /\ "iv" \notin DOMAIN decCall.contentField.val.f
    /\ decCall.value = decCall.contentField

\* C3 (as stated): decrypting the envelope of encryptText(P, K1) with any
\* password K2 # K1 raises nothing and returns the serialized envelope
\* verbatim, a value different from P.
C3_WrongPassword ==
    (DecryptedLastEnvelope /\ decCall.password # encCall.password)
        => /\ ~decCall.raised
           /\ decCall.value = decCall.contentField
           /\ decCall.value # Txt(encCall.plain)

\* C4: no two envelopes produced by encryptText share an iv and no two share a
\* salt, whatever the plaintexts and passwords; every iv is a fresh 12-byte
\* draw and every salt a fresh 16-byte draw.
C4_Freshness ==
    /\ \A i, j \in 1..Len(nonces) :
         i # j => (nonces[i].iv # nonces[j].iv /\ nonces[i].salt # nonces[j].salt)
    /\ \A i \in 1..Len(nonces) :
         /\ nonces[i].iv.buf.t = "rand" /\ nonces[i].iv.buf.len = 12
         /\ nonces[i].salt.buf.t = "rand" /\ nonces[i].salt.buf.len = 16

\* two calls with the same plaintext and password have been made
C4_Witness ==
    /\ Len(nonces) >= 2
    /\ encCall.done
    /\ nonces[1].iv # nonces[2].iv

\* the part of s between its first and last code unit that is not white space
Core(s) ==
    LET solid == {i \in 1..Len(s) : s[i] \notin WhiteSpace} IN
    IF solid = {} THEN <<>>
    ELSE LET lo == CHOOSE i \in solid : \A j \in solid : i <= j
             hi == CHOOSE i \in solid : \A j \in solid : j <= i
         IN  SubSeq(s, lo, hi)

CaseVariants(a, b) == a = b \/ {a, b} = {"T", "t"} \/ {a, b} = {"Q", "q"}

\* r1 and r2 differ only in letter case or surrounding white space
SameButCaseAndSpace(r1, r2) ==
    /\ Len(Core(r1)) = Len(Core(r2))
    /\ \A i \in 1..Len(Core(r1)) : CaseVariants(Core(r1)[i], Core(r2)[i])

\* C5: the room normalizer is idempotent, and two raw identifiers that differ
\* only in letter case or surrounding white space get the same key.
C5_Normalizer ==
    normCall.done =>
        /\ normCall.keyAA = normCall.keyA
        /\ SameButCaseAndSpace(rawRoomA, rawRoomB) => normCall.keyA = normCall.keyB

C5_Witness ==
    /\ normCall.done
    /\ rawRoomA = <<" ", "T", " ">>
    /\ rawRoomB = <<"t">>
    /\ normCall.keyA = <<"t">>
    /\ normCall.keyB = <<"t">>

\* a channel that has been subscribed and not unsubscribed
Open(ch) == ch.st \in {"joining", "joined"}

\* k is in canonical form: no upper-case letter, no white space around it
IsKey(k) ==
    /\ \A i \in 1..Len(k) : k[i] \notin {"T", "Q"}
    /\ k # <<>> => (k[1] \notin WhiteSpace /\ k[Len(k)] \notin WhiteSpace)

\* the room keys a client's remote operations carry at this moment, each with
\* the raw identifier that was in the form when the operation was issued
RoomUses(c) ==
    {[op |-> "select", key |-> join[c].key, raw |-> join[c].room] :
        x \in {y \in {1} : join[c].pc \in {"select", "decrypt"}}}
    \cup {[op |-> "changes", key |-> Tail(msgChannelRef[c].topic), raw |-> join[c].room] :
        x \in {y \in {1} : Open(msgChannelRef[c])}}
    \cup {[op |-> "filter", key |-> msgChannelRef[c].filter, raw |-> join[c].room] :
        x \in {y \in {1} : Open(msgChannelRef[c])}}
    \cup {[op |-> "presence", key |-> Tail(presenceRef[c].topic), raw |-> join[c].room] :
        x \in {y \in {1} : Open(presenceRef[c])}}
    \cup {[op |-> "insert", key |-> sends[c][i].room, raw |-> sends[c][i].raw] :
        i \in 1..Len(sends[c])}
    \cup {[op |-> "delete", key |-> clear[c].room, raw |-> clear[c].raw] :
        x \in {y \in {1} : clear[c].pc # "idle"}}
    \cup {[op |-> "invite", key |-> clipboard[c].room, raw |-> clipboard[c].raw] :
        x \in {y \in {1} : clipboard[c].copied}}

AllRoomUses == UNION {RoomUses(c) : c \in Clients}

\* C6: the backfill query, both channel names and the change filter, every
\* insert, the bulk delete and the invite link carry the trimmed lower-case form
\* of the raw room id they were issued for, so operations issued for raw ids
\* that differ only in case or surrounding white space name the same room; the
\* stored rows are filed under canonical keys only.
C6_CanonicalRoomKey ==
    /\ \A u \in AllRoomUses : IsKey(u.key) /\ SameButCaseAndSpace(u.key, u.raw)
    /\ \A u, w \in AllRoomUses : SameButCaseAndSpace(u.raw, w.raw) => u.key = w.key
    /\ \A c \in Clients :
         /\ Open(msgChannelRef[c]) => Head(msgChannelRef[c].topic) = "room:"
         /\ Open(presenceRef[c]) => Head(presenceRef[c].topic) = "presence:"
    /\ \A i \in 1..Len(store) : IsKey(store[i].room)

\* subscribed under " t" to a room whose row was written under "T", with the
\* bulk delete under way and the invite link copied
C6_Witness ==
    /\ msgChannelRef["c1"].st = "joined"
    /\ presenceRef["c1"].st = "joined"
    /\ join["c1"].room = <<" ", "t">>
    /\ Len(messages["c1"]) = 1
    /\ store # <<>>
    /\ clear["c1"].pc = "sent"
    /\ clear["c1"].raw = <<" ", "t">>
    /\ clipboard["c1"].copied
    /\ clipboard["c1"].raw = <<"T">>

\* B's list is the one message A wrote
OneHelloFromA ==
    /\ Len(messages["c2"]) = 1
    /\ messages["c2"][1].content = Txt(<<"h">>)
    /\ messages["c2"][1].author = <<"a">>

\* C7: A joins room "T" and sends "h"; B then joins room "t" with the same
\* password; from some moment on B's message list holds exactly one entry, with
\* content "h" and A's display name as author.
C7_Delivery == <>[]OneHelloFromA

C7_Witness ==
    /\ joined["c1"]
    /\ joined["c2"]
    /\ join["c1"].room = <<"T">>
    /\ join["c2"].room = <<"t">>
    /\ pass["c1"] = pass["c2"]
    /\ msgChannelRef["c2"].st = "joined"
    /\ OneHelloFromA

\* C8 (as stated): under at-least-once delivery of change events no message id
\* occurs twice in a client's message list.
C8_ExactlyOnce ==
    \A c \in Clients : \A i, j \in 1..Len(messages[c]) :
        messages[c][i].id = messages[c][j].id => i = j

\* C9: while the backfill is outstanding the client is not joined and has no
\* open subscription, and the step that opens the subscriptions or sets the
\* joined flag is taken only when the query has returned its rows and every one
\* of them has been decrypted.
C9_JoinOrdering ==
    /\ [](\A c \in Clients : join[c].pc \in {"select", "decrypt"} =>
            ~joined[c] /\ ~Open(msgChannelRef[c]) /\ ~Open(presenceRef[c]))
    /\ [][\A c \in Clients :
            (\/ ~joined[c] /\ joined'[c]
             \/ ~Open(msgChannelRef[c]) /\ Open(msgChannelRef'[c])
             \/ ~Open(presenceRef[c]) /\ Open(presenceRef'[c]))
            => /\ join[c].pc = "decrypt"
               /\ \A i \in 1..Len(join[c].data) :
                    \E j \in 1..Len(join[c].done) : join[c].done[j] = i]_vars

\* joined on a backfill of one record, the subscriptions just opened
C9_Witness ==
    /\ joined["c1"]
    /\ join["c1"].pc = "idle"
    /\ msgChannelRef["c1"].st = "joining"
    /\ presenceRef["c1"].st = "joining"
    /\ Len(messages["c1"]) = 1
    /\ decrypting["c1"] = <<>>

\* C10 (as stated): the step in which the backfill query returns an error
\* leaves the client not joined, not loading, with an error message, an empty
\* message list and no open subscription.
C10_BackfillFailure ==
    [][\A c \in Clients :
         (mounted[c] /\ join[c].pc = "select" /\ join'[c].pc = "idle")
         => /\ ~joined'[c]
            /\ ~loading'[c]
            /\ errMsg'[c] # ""
            /\ messages'[c] = <<>>
            /\ ~Open(msgChannelRef'[c])
            /\ ~Open(presenceRef'[c])]_vars

Ascending(rows) == \A i, j \in 1..Len(rows) : i < j => rows[i].created_at < rows[j].created_at

\* C12 (as stated): the backfill returns at most the page size, in ascending
\* creation order, and when the room stores more rows than the page size the
\* rows returned are the most recently stored ones.
C12_BackfillCap ==
    [][\A c \in Clients : \A n \in 1..MaxPage :
         BackfillAnswered(c, n) =>
            LET got == join'[c].data
                all == SelectRoom(store, join[c].key)
            IN  /\ Len(got) <= n
                /\ Ascending(got)
                /\ Len(all) > n => got = SubSeq(all, Len(all) - n + 1, Len(all))]_vars

\* C13 (as stated): a client joined under a password different from the
\* sender's has, for stored rows, list entries in stored order with the row's
\* id and author, whose content is the row's wire content and not the
\* sender's plaintext; no error is shown.
C13_WrongPasswordSession ==
    (joined["c2"] /\ join["c2"].pass # pass["c1"]) =>
        /\ errMsg["c2"] = ""
        /\ \A i, j \in 1..Len(messages["c2"]) :
             i < j => messages["c2"][i].id < messages["c2"][j].id
        /\ \A i \in 1..Len(messages["c2"]) :
             /\ \E k \in 1..Len(store) :
                  /\ store[k].id = messages["c2"][i].id
                  /\ store[k].author = messages["c2"][i].author
                  /\ store[k].content = messages["c2"][i].content
             /\ messages["c2"][i].content # Txt(<<"h">>)

\* a notice that names A as the one who cleared the room
NamesA(notice) == "by" \in DOMAIN notice /\ notice.by = <<"a">>

\* A's delete has been executed while A and B are both subscribed to the room
ClearedByA ==
    /\ clear["c1"].pc = "deleted"
    /\ \A c \in Clients : msgChannelRef[c].st = "joined" /\ presenceRef[c].st = "joined"

\* C14 (as stated): once A's clear-history has succeeded with A and B joined,
\* the message lists of A and B become empty and A and B each get a
\* room-cleared notice that names A.
C14_ClearScenario ==
    ClearedByA ~> (/\ messages["c1"] = <<>>
                   /\ messages["c2"] = <<>>
                   /\ NamesA(infoMsg["c1"])
                   /\ NamesA(infoMsg["c2"]))

\* C15: the step in which a client handles a DELETE change event leaves its
\* message list empty, whatever the list held and whichever row the event names.
C15_DeleteClearsList ==
    [][\A c \in Clients :
         (/\ mounted[c]
          /\ changeQ[c] # <<>>
          /\ Head(changeQ[c]).type = "DELETE"
          /\ \E again \in BOOLEAN : DeliverChange(c, again))
         => messages'[c] = <<>>]_vars

\* two rows deleted, the event for the first handled and the event for the
\* second still to come: the list is empty already
C15_Witness ==
    /\ joined["c1"]
    /\ nextId = 3
    /\ store = <<>>
    /\ Len(changeQ["c1"]) = 1
    /\ Head(changeQ["c1"]).type = "DELETE"
    /\ Head(changeQ["c1"]).old.id = 2
    /\ decrypting["c1"] = <<>>
    /\ messages["c1"] = <<>>

\* what sendMessage and joinRoom reject
SendInvalid(c) ==
    \/ trim(message[c]) = <<>>
    \/ normalizedRoom(room[c]) = <<>>
    \/ normalizedName(name[c]) = <<>>
    \/ pass[c] = <<>>

JoinInvalid(c) ==
    \/ normalizedRoom(room[c]) = <<>>
    \/ normalizedName(name[c]) = <<>>
    \/ pass[c] = <<>>

\* no query, insert, delete, subscription or broadcast is issued in the step
NoRemoteCall ==
    /\ UNCHANGED <<join, sends, clear, msgChannelRef, presenceRef, remoteVars>>

\* C16 (as stated): a Send of empty or white-space-only text, or a Send or
\* Join with room, name or password missing, issues no remote call and shows
\* an error message.
C16_ValidationSurfaced ==
    [][\A c \in Clients :
         /\ (SendInvalid(c) /\ \E rest \in BOOLEAN : SendStart(c, rest))
                => (NoRemoteCall /\ errMsg'[c] # "")
         /\ (JoinInvalid(c) /\ JoinStart(c))
                => (NoRemoteCall /\ errMsg'[c] # "")]_vars

\* C17: a send whose insert returns an error, or whose encryption throws,
\* ends with the submitted text in the composer and an error message shown;
\* an accepted send empties the composer and shows no error, and the success
\* of its insert changes neither.
C17_SendRollback ==
    [][\A c \in Clients :
         /\ \A i \in 1..Len(sends[c]) :
              /\ (mounted[c] /\ (InsertError(c, i) \/ EncryptError(c, i)))
                    => (message'[c] = sends[c][i].text /\ errMsg'[c] # "")
              /\ InsertOk(c, i)
                    => (message'[c] = message[c] /\ errMsg'[c] = errMsg[c])
         /\ (~SendInvalid(c) /\ \E rest \in BOOLEAN : SendStart(c, rest))
              => (message'[c] = <<>> /\ errMsg'[c] = "")]_vars

\* a failed insert has put the text back while the user had typed on
C17_Witness ==
    /\ joined["c1"]
    /\ errMsg["c1"] = "Errore Supabase INSERT"
    /\ message["c1"] = <<"h">>
    /\ sends["c1"] = <<>>
    /\ store = <<>>
    /\ rng = 2

\* str is the serialization of a v1 AES-GCM envelope
IsEnvelopeV1(str) ==
    /\ str.k = "json"
    /\ str.val.ty = "obj"
    /\ DOMAIN str.val.f = {"v", "alg", "iv", "salt", "ct"}
    /\ str.val.f.v = "v1"
    /\ str.val.f.alg = "AES-GCM"

\* the room, the author and the envelope form of the rows being inserted
InsertsWellFormed ==
    \A c \in Clients : \A i \in 1..Len(sends[c]) :
        LET t == sends[c][i] IN
        /\ IsKey(t.room) /\ SameButCaseAndSpace(t.room, t.raw)
        /\ t.author # <<>> /\ t.author = Core(t.author)
        /\ t.text # <<>> /\ t.text = Core(t.text)
        /\ IsEnvelopeV1(t.content)
        /\ t.content # Txt(t.text)
        /\ \A d \in Clients : \A k \in 1..Len(presenceQ[d]) :
             presenceQ[d][k].type = "typing" => presenceQ[d][k].name # t.text

\* the envelopes being inserted open under the password of the session
InsertsUnderSessionPassword ==
    \A c \in Clients : \A i \in 1..Len(sends[c]) :
        LET t == sends[c][i] IN
        decryptTextFromEnvelope(t.content, t.session).value = Txt(t.text)

\* C18 (as stated): every row a client inserts carries the canonical room, the
\* trimmed display name and, as content, a serialized v1 AES-GCM envelope of
\* the trimmed text under the password the session was joined with; the
\* plaintext is in no remote call.
C18_InsertPayload == InsertsWellFormed /\ InsertsUnderSessionPassword

\* the passwords typed in SpecSecret
Secrets == {<<"p">>, <<"w">>}

\* the string str has the string pw inside it
Contains(str, pw) ==
    \E i \in 1..(Len(str) - Len(pw) + 1) : SubSeq(str, i, i + Len(pw) - 1) = pw

\* the strings of the fields names of the record rec
FieldStrings(rec, names) == {rec[f] : f \in names \cap DOMAIN rec}

\* the strings of an event queued for a client by the collaborator
EventStrings(ev) ==
    IF ev.type = "sync" THEN ev.keys
    ELSE IF ev.type = "INSERT" THEN FieldStrings(ev.new, {"room", "author"})
    ELSE FieldStrings(ev, {"name", "by"})

\* every string the clients have handed to the collaborator or to the
\* clipboard: query keys, channel names and presence keys, insert and delete
\* requests, stored rows, queued events, invite links
RemoteStrings ==
    UNION {FieldStrings(join[c], {"key"})
             \cup FieldStrings(msgChannelRef[c], {"topic"})
             \cup FieldStrings(presenceRef[c], {"topic", "key"})
             \cup FieldStrings(clear[c], {"room", "by"})
             \cup FieldStrings(clipboard[c], {"room", "name"})
             \cup UNION {FieldStrings(sends[c][i], {"room", "author"}) :
                           i \in 1..Len(sends[c])}
             \cup UNION {EventStrings(presenceQ[c][i]) : i \in 1..Len(presenceQ[c])}
             \cup UNION {EventStrings(changeQ[c][i]) : i \in 1..Len(changeQ[c])}
           : c \in Clients}
    \cup UNION {FieldStrings(store[i], {"room", "author"}) : i \in 1..Len(store)}

\* a serialized envelope without its ciphertext field
Scrub(str) == [f \in DOMAIN str.val.f \ {"ct"} |-> str.val.f[f]]

\* C19: no string handed to the collaborator or put in an invite link holds a
\* password, and the rows being inserted are, but for the ciphertext field of
\* their envelopes, the rows the same Send makes under any other password.
C19_PasswordStaysLocal ==
    /\ \A str \in RemoteStrings : \A pw \in Secrets : ~Contains(str, pw)
    /\ \A c \in Clients : \A i \in 1..Len(sends[c]) : \A pw \in Secrets :
         LET t == sends[c][i] IN
         Scrub(t.content)
           = Scrub(JSON_stringify(encryptText(t.text, pw, t.content.val.f.iv.buf.n - 1)))

C19_Witness ==
    /\ joined["c1"] /\ pass["c1"] = <<"w">> /\ presenceRef["c1"].tracked
    /\ Len(sends["c1"]) = 1 /\ clipboard["c1"].copied /\ clear["c1"].pc = "sent"

\* C20: a copied invite link has exactly a room parameter, the canonical form
\* of the room field, and an empty name parameter; it is computed from the
\* room field alone, so it is the same whatever the password is, and holds
\* no password.
C20_InviteLink ==
    \A c \in Clients :
        clipboard[c].copied =>
            /\ clipboard[c] = [copied |-> TRUE, raw |-> clipboard[c].raw,
                               room |-> normalizedRoom(clipboard[c].raw), name |-> <<>>]
            /\ IsKey(clipboard[c].room)
            /\ \A pw \in Secrets : ~Contains(clipboard[c].room, pw)

C20_Witness ==
    /\ clipboard["c1"].copied /\ clipboard["c1"].room = <<"t">>
    /\ pass["c1"] = <<"w">> /\ join["c1"].pass = <<"p">>

\* the channel is not subscribed
Released(ch) == ch.st \in {"none", "closed"}

\* the state of a client that has left
Left(c) ==
    /\ Released(msgChannelRef[c]) /\ Released(presenceRef[c])
    /\ ~joined[c]
    /\ onlineUsers[c] = 0
    /\ typingUsers[c] = {}
    /\ messages[c] = <<>>
    /\ ~selfTypingRef[c]
    /\ typingTimerRef[c] = 0

NeverJoined(c) == msgChannelRef[c] = NoChannel /\ presenceRef[c] = NoChannel

\* C21: the leave handler ends with both channels unsubscribed, joined false,
\* online count 0, typing set and message list empty, the self-typing flag
\* false and no typing timer pending; run again in that state it changes
\* nothing, and the teardown of a client that never joined changes nothing but
\* the page being gone.
C21_LeaveIdempotent ==
    [][\A c \in Clients :
         /\ Esci(c) => Left(c)'
         /\ (Left(c) /\ Esci(c)) => UNCHANGED vars
         /\ (NeverJoined(c) /\ typingTimerRef[c] = 0 /\ Unmount(c))
               => UNCHANGED <<uiVars, presenceRef, msgChannelRef, selfTypingRef,
                              typingTimerRef, callVars, remoteVars>>]_vars

C21_Witness ==
    /\ Left("c1") /\ mounted["c1"]
    /\ msgChannelRef["c1"].st = "closed" /\ presenceRef["c1"].st = "closed"
    /\ typingSent["c1"] = <<TRUE>>

\* the step opens a new channel in the reference
Opens(ref, c) == ref'[c] # ref[c] /\ ref'[c].st = "joining"

\* C22: a step that opens a message-change or presence channel for a client
\* replaces a channel that is already unsubscribed, so the client never has two
\* live channels of a kind; and every Leave, accepted Join and teardown ends
\* with both channels of the client unsubscribed.
C22_OneSubscription ==
    [][\A c \in Clients :
         /\ Opens(msgChannelRef, c) => Released(msgChannelRef[c])
         /\ Opens(presenceRef, c) => Released(presenceRef[c])
         /\ (Leave(c) \/ Unmount(c) \/ (JoinStart(c) /\ loading'[c]))
               => (Released(msgChannelRef[c]') /\ Released(presenceRef[c]'))]_vars

C22_Witness ==
    /\ joined["c1"] /\ msgChannelRef["c1"].st = "joined" /\ presenceRef["c1"].st = "joined"
    /\ typingSent["c1"] = <<TRUE>> /\ ~selfTypingRef["c1"]

\* C23 (as stated): a backfill result that arrives after the page was torn
\* down is discarded: the rest of the Join does not fill the message list,
\* does not set joined and opens no subscription.
C23_CancelledJoin ==
    [][\A c \in Clients :
         (~mounted[c] /\ JoinFinish(c))
            => /\ messages'[c] = messages[c]
               /\ joined'[c] = joined[c]
               /\ msgChannelRef'[c] = msgChannelRef[c]
               /\ presenceRef'[c] = presenceRef[c]]_vars

\* a call of handleTypingActivity: a change of the composer or a key in it
Activity(c) ==
    \/ \E rest \in BOOLEAN : TypingKey(c, rest)
    \/ \E text \in {<<>>, <<"h">>}, rest \in BOOLEAN : SetMessage(c, text, rest)

\* the step hands one typing broadcast with this flag to the channel
Transmits(c, flag) == typingSent'[c] = LastTwo(Append(typingSent[c], flag))

\* C24: in a joined session the first activity of a burst, made with the
\* self-typing flag false, transmits one typing=true and the later ones
\* transmit nothing; every activity leaves exactly one timer pending; the timer
\* firing at the end of the burst transmits one typing=false and leaves no
\* timer; and at most one typing timer is ever pending.
C24_TypingDebounce ==
    [][\A c \in Clients :
         /\ typingTimerRef'[c] <= 1
         /\ (Activity(c) /\ ~selfTypingRef[c])
               => (Transmits(c, TRUE) /\ selfTypingRef'[c] /\ typingTimerRef'[c] = 1)
         /\ (Activity(c) /\ selfTypingRef[c])
               => (typingSent'[c] = typingSent[c] /\ selfTypingRef'[c]
                   /\ typingTimerRef'[c] = 1)
         /\ ((\E rest \in BOOLEAN : TypingTimerFired(c, rest)) /\ selfTypingRef[c])
               => (Transmits(c, FALSE) /\ ~selfTypingRef'[c] /\ typingTimerRef'[c] = 0)]_vars

C24_Witness ==
    /\ joined["c1"] /\ typingSent["c1"] = <<TRUE, FALSE>> /\ message["c1"] = <<"h">>
    /\ typingTimerRef["c1"] = 0 /\ rng = 0

\* C25 (as stated): in the sequence of typing broadcasts a client transmits,
\* the first carries typing=true and no two consecutive ones carry the same
\* flag.
C25_EdgeTriggered ==
    \A c \in Clients :
        /\ Len(typingSent[c]) = 1 => typingSent[c][1]
        /\ Len(typingSent[c]) = 2 => typingSent[c][1] # typingSent[c][2]

\* the step hands a typing broadcast of c to its presence channel
SendsTyping(c) ==
    /\ selfTypingRef'[c] # selfTypingRef[c]
    /\ Transmits(c, selfTypingRef'[c])

\* C26: a typing timer is pending only in a joined client on an open page
\* whose presence channel is not unsubscribed, so none survives a Leave, an
\* unmount or a new Join; and no typing broadcast is handed to an unsubscribed
\* channel.
C26_NoStaleTimer ==
    [][\A c \in Clients :
         /\ typingTimerRef'[c] > 0
               => (joined'[c] /\ mounted'[c] /\ ~Released(presenceRef'[c]))
         /\ (Leave(c) \/ Unmount(c) \/ JoinStart(c)) => typingTimerRef'[c] = 0
         /\ SendsTyping(c) => ~Released(presenceRef[c])]_vars

C26_Witness ==
    /\ ~mounted["c1"] /\ joined["c1"] /\ selfTypingRef["c1"]
    /\ typingTimerRef["c1"] = 0 /\ presenceRef["c1"].st = "closed"

\* the typing set of c after a typing event, for the name c goes by
TypingSetAfter(c, ev, own) ==
    IF ev.name = <<>> \/ ev.name = own THEN typingUsers[c]
    ELSE IF ev.typing THEN typingUsers[c] \cup {ev.name}
    ELSE typingUsers[c] \ {ev.name}

\* the step in which c handles a typing event
HandlesTyping(c) ==
    /\ presenceQ[c] # <<>>
    /\ Head(presenceQ[c]).type = "typing"
    /\ DeliverPresence(c)

\* C27 (as stated): a typing=true event from another display name adds the
\* name to the typing set and a typing=false event removes it, an event with
\* no name or with the client's own display name changes nothing, and the
\* client's own display name is never in its typing set.
C27_TypingSet ==
    [][\A c \in Clients :
         /\ HandlesTyping(c)
               => typingUsers'[c]
                    = TypingSetAfter(c, Head(presenceQ[c]), normalizedName(name[c]))
         /\ normalizedName(name[c]) \notin typingUsers'[c]]_vars

\* the same with the display name the session was joined under
TypingSetOfSession ==
    [][\A c \in Clients :
         /\ HandlesTyping(c)
               => typingUsers'[c]
                    = TypingSetAfter(c, Head(presenceQ[c]), normalizedName(join[c].name))
         /\ joined[c] => normalizedName(join[c].name) \notin typingUsers[c]]_vars

\* the step in which c handles a room_cleared event
HandlesCleared(c) ==
    /\ presenceQ[c] # <<>>
    /\ Head(presenceQ[c]).type = "room_cleared"
    /\ DeliverPresence(c)

\* C28: handling a room_cleared event empties the message list and the typing
\* set, leaves the error message alone and sets the notice: one that names the
\* by field of the payload, or the generic one when the field is missing or
\* empty.
C28_RoomClearedReceipt ==
    [][\A c \in Clients :
         HandlesCleared(c) =>
            LET ev == Head(presenceQ[c]) IN
            /\ messages'[c] = <<>>
            /\ typingUsers'[c] = {}
            /\ errMsg'[c] = errMsg[c]
            /\ infoMsg'[c] = IF "by" \in DOMAIN ev /\ ev.by # <<>>
                             THEN [text |-> "Cronologia eliminata da", by |-> ev.by]
                             ELSE [text |-> "Cronologia eliminata."]]_vars

C28_Witness ==
    /\ joined["c2"] /\ infoMsg["c2"] = [text |-> "Cronologia eliminata."]
    /\ messages["c2"] = <<>> /\ store # <<>>

\* the step in which c handles the last presence sync queued for it
HandlesLastSync(c) ==
    /\ presenceQ[c] # <<>>
    /\ Head(presenceQ[c]).type = "sync"
    /\ \A i \in 2..Len(presenceQ[c]) : presenceQ[c][i].type # "sync"
    /\ DeliverPresence(c)

\* the participants attached to c's presence channel that track themselves
TrackedParticipants(c) ==
    {d \in PresenceMembers(presenceRef[c].topic) : presenceRef[d].tracked}

\* C29 (as stated): once a client has handled the presence syncs sent to it,
\* its online count is the number of participants attached to the channel and
\* tracked, each participant counted separately; and a client is tracked only
\* on a channel acknowledged as subscribed.
C29_PresenceCount ==
    [][\A c \in Clients :
         /\ HandlesLastSync(c) => onlineUsers'[c] = Cardinality(TrackedParticipants(c))
         /\ ("tracked" \in DOMAIN presenceRef'[c] /\ presenceRef'[c].tracked)
               => presenceRef'[c].st = "joined"]_vars

\* the same count over display names instead of participants
CountsPresenceKeys ==
    [][\A c \in Clients :
         HandlesLastSync(c)
            => onlineUsers'[c] = Cardinality(PresenceKeys(TrackedParticipants(c)))]_vars

\* C30: the message list set by Join has one entry per record of the query's
\* answer, in the answer's order, whatever the order in which the decryptions
\* completed.
C30_BackfillOrder ==
    [][\A c \in Clients :
         (mounted[c] /\ JoinFinish(c))
            => /\ Len(messages'[c]) = Len(join[c].data)
               /\ \A i \in 1..Len(join[c].data) :
                    /\ messages'[c][i].id = join[c].data[i].id
                    /\ messages'[c][i] = Decrypted(join[c].data[i], join[c].pass)]_vars

C30_Witness ==
    /\ joined["c1"] /\ join["c1"].done = <<2, 1>>
    /\ Len(messages["c1"]) = 2 /\ messages["c1"][1].id = 1 /\ messages["c1"][2].id = 2

\* C31 (as stated): the messages a client appends from INSERT events are in
\* its list in the order the events were delivered to it, which is the order
\* of the ids the store gave them.
C31_ArrivalOrder ==
    \A c \in Clients : \A i, j \in 1..Len(messages[c]) :
        i < j => messages[c][i].id < messages[c][j].id

\* C32 (as stated): a message whose INSERT event a client received before a
\* DELETE or room_cleared event it has handled is not put in the client's
\* list afterwards, also when its decryption completes after that event.
C32_ClearInvalidates ==
    [][\A c \in Clients : \A i \in 1..Len(decrypting[c]) :
         (mounted[c] /\ decrypting[c][i].cleared /\ InsertDecrypted(c, i))
            => messages'[c] = messages[c]]_vars

\* C33 (as stated): a client that is not joined and has no Join in flight has
\* an empty message list, an online count of 0 and an empty typing set.
C33_IdleClean ==
    \A c \in Clients :
        (mounted[c] /\ ~joined[c] /\ join[c].pc = "idle")
           => (messages[c] = <<>> /\ onlineUsers[c] = 0 /\ typingUsers[c] = {})

\* B's Join has its backfill answer, its message-change subscription is not
\* live yet, and row 1 was stored after the answer was taken
StoredDuringHandover ==
    /\ Len(store) = 1
    /\ join["c2"].pc = "decrypt"
    /\ join["c2"].data = <<>>
    /\ msgChannelRef["c2"].st # "joined"

\* C34 (as stated): a message stored in the room after a client's backfill
\* query was answered and before its message-change subscription is live is
\* eventually in that client's list, the client being Joined.
C34_NoLossAtHandover ==
    StoredDuringHandover
        ~> (joined["c2"] /\ \E i \in 1..Len(messages["c2"]) : messages["c2"][i].id = store[1].id)

\* the ids of the rows the store holds
StoredIds(rows) == {rows[k].id : k \in 1..Len(rows)}

\* C35 (as stated): a message that is in a joined client's list and whose row
\* is in the store, before and after a step, is still in the client's list
\* after the step: neither the clear-history response nor a room_cleared
\* notice removes a message stored after the bulk delete.
C35_ClearKeepsNewer ==
    [][\A c \in Clients : \A i \in 1..Len(messages[c]) :
         (/\ joined[c] /\ joined'[c]
          /\ messages[c][i].id \in StoredIds(store)
          /\ messages[c][i].id \in StoredIds(store'))
            => \E j \in 1..Len(messages'[c]) : messages'[c][j].id = messages[c][i].id]_vars

\* a delete request that returns before the store executed it has failed
DeleteFailed(c) == clear[c].pc = "sent" /\ clear'[c].pc = "idle"

\* C36: a clear-history that fails (the delete returns an error), is declined
\* or is asked with a blank room leaves the client's message list and typing
\* set as they are and sends no room_cleared notice; on an error the error
\* message is set and nothing else of the page changes.
C36_FailedClearIsInert ==
    [][\A c \in Clients :
         /\ DeleteFailed(c) =>
              /\ messages' = messages /\ typingUsers' = typingUsers
              /\ presenceQ' = presenceQ /\ changeQ' = changeQ /\ store' = store
              /\ errMsg'[c] = SetState(c, errMsg[c], "Errore DELETE")
              /\ infoMsg' = infoMsg /\ onlineUsers' = onlineUsers /\ joined' = joined
         /\ (ClearDeclined(c) \/ ClearBlank(c)) =>
              /\ messages' = messages /\ typingUsers' = typingUsers
              /\ presenceQ' = presenceQ /\ errMsg' = errMsg /\ infoMsg' = infoMsg]_vars

C36_Witness ==
    /\ errMsg["c1"] = "Errore DELETE" /\ clear["c1"].pc = "idle"
    /\ joined["c1"] /\ messages["c1"] # <<>> /\ typingUsers["c1"] # {}
    /\ store # <<>>
    /\ \A c \in Clients : presenceQ[c] = <<>>

\* C37 (as stated): when a send fails, the text that is in the composer at
\* that moment (typed, or put back by another failed send, after the send
\* emptied the composer) is still part of the composer's text afterwards.
C37_RollbackKeepsNewer ==
    [][\A c \in Clients : \A i \in 1..Len(sends[c]) :
         (mounted[c] /\ (InsertError(c, i) \/ EncryptError(c, i)))
            => Contains(message'[c], message[c])]_vars

\* A has left the room or its page is gone, and the last typing flag it
\* transmitted was true
GoneWhileTyping ==
    /\ Released(presenceRef["c1"]) /\ presenceRef["c1"].st # "none"
    /\ typingSent["c1"] # <<>>
    /\ typingSent["c1"][Len(typingSent["c1"])]

\* C38 (as stated): when a participant whose last transmitted flag was
\* typing = true has left the room or was torn down, the typing set of the
\* other joined client eventually does not contain the participant's name.
C38_TypingNotStale ==
    GoneWhileTyping ~> (normalizedName(name["c1"]) \notin typingUsers["c2"])

\* the Join of c is between its validation and its last state update
JoinInFlight(c) == join[c].pc \in {"select", "decrypt"}

\* the Join of c has finished: the page shows it joined, or not joined with
\* the backfill error
JoinSettled(c) ==
    /\ ~JoinInFlight(c)
    /\ mounted[c] =>
         /\ ~loading[c]
         /\ \/ joined[c]
            \/ ~joined[c] /\ errMsg[c] = "Errore Supabase SELECT"

\* C39: a Join that passed validation eventually finishes, with loading false
\* and the client joined or not joined with the backfill error shown; on a
\* page that is mounted, loading is true only while a Join's backfill or
\* batch decryption is in flight.
C39_JoinTerminates ==
    /\ \A c \in Clients : JoinInFlight(c) ~> JoinSettled(c)
    /\ [](\A c \in Clients : (mounted[c] /\ loading[c]) => JoinInFlight(c))

\* joined under another password than the rows', and refused
C39_Witness ==
    /\ mounted["c1"] /\ joined["c1"] /\ ~loading["c1"] /\ ~JoinInFlight("c1")
    /\ pass["c1"] = <<"w">>
    /\ Len(messages["c1"]) = MaxStored
    /\ \A i \in 1..MaxStored : messages["c1"][i].content = store[i].content

====
